---- MODULE Spec2Model ----
(***************************************************************************)
(* Model of the agent hooks: the command classifiers, the comment/string   *)
(* scanner, the attribute detector (agent_hooks/core) and the two command  *)
(* handlers of the agent_hooks/claude front end.                           *)
(*                                                                         *)
(* Text is modelled by TLA+ strings; a byte offset of the source is the    *)
(* 0-based offset used here (At, Slice); a text holds the bytes of its     *)
(* UTF-8 encoding, one character per byte.  The texts of a state are       *)
(* 7-bit; the texts with wider characters are the constant sets Wide...,   *)
(* to which the classifiers are applied outside the state.  An Option<T>   *)
(* is a sequence of length at most one: None is << >> and Some(v) is       *)
(* << v >>.                                                                *)
(***************************************************************************)
EXTENDS Integers, Sequences, FiniteSets, TLC

VARIABLES pc, flags, data, out, arg, ret

vars == <<pc, flags, data, out, arg, ret>>

----------------------------------------------------------------------------
(* Options and strings *)

None == << >>

Some(v) == << v >>

unwrap_or_default(o) == IF o = None THEN "" ELSE o[1]

or(a, b) == IF a = None THEN b ELSE a

At(s, i) == SubSeq(s, i + 1, i + 1)

Slice(s, a, b) == SubSeq(s, a + 1, b)

StartsAt(s, w, p) == p + Len(w) <= Len(s) /\ Slice(s, p, p + Len(w)) = w

contains(s, w) == \E p \in 0..Len(s) : StartsAt(s, w, p)

matches_count(s, w) == Cardinality({p \in 0..Len(s) : StartsAt(s, w, p)})

UpperLetters == "ABCDEFGHIJKLMNOPQRSTUVWXYZ"

LowerLetters == "abcdefghijklmnopqrstuvwxyz"

(* The lower-case letter of every upper-case ASCII letter *)
AsciiLower ==
    [c \in {At(UpperLetters, i) : i \in 0..25} |->
        At(LowerLetters, CHOOSE i \in 0..25 : At(UpperLetters, i) = c)]

to_ascii_lowercase(c) == IF c \in DOMAIN AsciiLower THEN AsciiLower[c] ELSE c

eq_ignore_ascii_case(a, b) ==
    /\ Len(a) = Len(b)
    /\ \A i \in 0..(Len(a) - 1) :
           to_ascii_lowercase(At(a, i)) = to_ascii_lowercase(At(b, i))

----------------------------------------------------------------------------
(* Regular expressions.  A sub-expression maps the set of offsets where it *)
(* may start to the set of offsets where it may end; is_match asks whether *)
(* the whole expression, started at any offset, has an end.                *)

(* A text is the sequence of the bytes of its UTF-8 encoding, one          *)
(* character per byte.  \s is the Unicode White_Space property; a white    *)
(* space is given by the bytes of its encoding: U+0009..U+000D, U+0020,    *)
(* U+0085, U+00A0, U+1680, U+2000..U+200A, U+2028, U+2029, U+202F, U+205F, *)
(* U+3000.                                                                 *)
AsciiWhiteSpace ==
    {" ", "\t", "\n", "", "\f", "\r"}

WhiteSpace ==
    AsciiWhiteSpace \cup
    {"Â", "Â ", "á", "â", "â", "â", "â", "â", "â", "â",
     "â", "â", "â", "â", "â¨", "â©", "â¯", "â", "ã"}

(* c: the encoding of one character *)
IsSpace(c) == c \in WhiteSpace

(* The lengths n such that s[p..p+n] is one white space *)
SpaceLen(s, p) ==
    IF p >= Len(s) THEN {}
    ELSE IF At(s, p) \in AsciiWhiteSpace THEN {1}
    ELSE IF At(s, p) \in {"Â", "á", "â", "ã"}
    THEN {n \in 2..3 : p + n <= Len(s) /\ IsSpace(Slice(s, p, p + n))}
    ELSE {}

(* The bytes 0x80..0xBF, which continue the encoding of a character; an    *)
(* offset is a character boundary when no such byte stands there.          *)
ContinuationBytes ==
    {"", "", "", "", "", "", "", "", "", "", "", "", "", "",
     "", "", "", "", "", "", "", "", "", "", "", "", "", "",
     "", "", "", "", " ", "¡", "¢", "£", "¤", "¥", "¦", "§", "¨", "©",
     "ª", "«", "¬", "­", "®", "¯", "°", "±", "²", "³", "´", "µ", "¶", "·",
     "¸", "¹", "º", "»", "¼", "½", "¾", "¿"}

Boundary(s, q) == q >= Len(s) \/ At(s, q) \notin ContinuationBytes

Lit(s, w, P) == {p + Len(w) : p \in {q \in P : StartsAt(s, w, q)}}

(* (?i) is Unicode simple case folding: besides the two ASCII cases, `s`   *)
(* matches U+017F (long s) and `k` matches U+212A (Kelvin sign).           *)
LongS == "Å¿"

KelvinSign == "âª"

(* The ends of the characters at p that match the letter c of a pattern *)
FoldChar(s, c, p) ==
    IF p >= Len(s) THEN {}
    ELSE IF At(s, p) = c \/ to_ascii_lowercase(At(s, p)) = to_ascii_lowercase(c)
    THEN {p + 1}
    ELSE IF to_ascii_lowercase(c) = "s" /\ StartsAt(s, LongS, p) THEN {p + Len(LongS)}
    ELSE IF to_ascii_lowercase(c) = "k" /\ StartsAt(s, KelvinSign, p)
    THEN {p + Len(KelvinSign)}
    ELSE {}

(* The ends of the matches of w[k..] at p *)
RECURSIVE LitIFrom(_, _, _, _)
LitIFrom(s, w, k, p) ==
    IF k = Len(w) THEN {p}
    ELSE UNION {LitIFrom(s, w, k + 1, e) : e \in FoldChar(s, At(w, k), p)}

LitI(s, w, P) == UNION {LitIFrom(s, w, 0, p) : p \in P}

(* \s: one white space *)
Space1(s, P) == UNION {{p + n : n \in SpaceLen(s, p)} : p \in P}

(* \s*: the offsets reached from P over zero or more white spaces *)
RECURSIVE SpaceStar(_, _)
SpaceStar(s, P) ==
    LET further == Space1(s, P) \ P
    IN  IF further = {} THEN P ELSE P \cup SpaceStar(s, further)

SpacePlus(s, P) == SpaceStar(s, Space1(s, P))

(* The offset of the first white space at or after p, Len(s) without one *)
RECURSIVE NonSpaceRun(_, _)
NonSpaceRun(s, p) ==
    IF p < Len(s) /\ SpaceLen(s, p) = {} THEN NonSpaceRun(s, p + 1) ELSE p

(* \S*: zero or more characters that are not white space *)
NonSpaceStar(s, P) ==
    UNION {{q \in p..NonSpaceRun(s, p) : Boundary(s, q)} : p \in P}

(* The offset of the first line feed at or after p, Len(s) without one *)
RECURSIVE LineRun(_, _)
LineRun(s, p) ==
    IF p < Len(s) /\ At(s, p) # "\n" THEN LineRun(s, p + 1) ELSE p

(* .*: zero or more characters other than the line feed *)
DotStar(s, P) ==
    UNION {{q \in p..LineRun(s, p) : Boundary(s, q)} : p \in P}

SpaceOrEnd(s, P) == {p \in P : p = Len(s)} \cup Space1(s, P)

AfterSeparator(s) ==
    {0} \cup SpaceStar(s, {p + 1 : p \in {q \in 0..(Len(s) - 1) :
                                             At(s, q) \in {";", "&", "|", "(", ")"}}})

----------------------------------------------------------------------------
(* rm command detection *)

(* Variant: the pattern is not anchored at the start or after a separator *)
RM_PATTERN_Unanchored(s) ==
    LET g0 == 0..Len(s)
        g1 == g0 \cup SpacePlus(s, Lit(s, "sudo", g0))
        g2 == g1 \cup SpacePlus(s, Lit(s, "command", g1))
        g3 == g2 \cup Lit(s, "\\", g2)
        g4 == g3 \cup Lit(s, "/", NonSpaceStar(s, g3))
    IN  SpaceOrEnd(s, Lit(s, "rm", g4)) # {}

(* Variant: the optional `command` prefix is not part of the pattern *)
RM_PATTERN_NoCommand(s) ==
    LET g0 == AfterSeparator(s)
        g1 == g0 \cup SpacePlus(s, Lit(s, "sudo", g0))
        g3 == g1 \cup Lit(s, "\\", g1)
        g4 == g3 \cup Lit(s, "/", NonSpaceStar(s, g3))
    IN  SpaceOrEnd(s, Lit(s, "rm", g4)) # {}

(* Variant: `rm` need not be followed by whitespace or the end of the text *)
RM_PATTERN_NoTokenEnd(s) ==
    LET g0 == AfterSeparator(s)
        g1 == g0 \cup SpacePlus(s, Lit(s, "sudo", g0))
        g2 == g1 \cup SpacePlus(s, Lit(s, "command", g1))
        g3 == g2 \cup Lit(s, "\\", g2)
        g4 == g3 \cup Lit(s, "/", NonSpaceStar(s, g3))
    IN  Lit(s, "rm", g4) # {}

(* Variant: the command is recognised at the start of the text only *)
RM_PATTERN_StartOnly(s) ==
    LET g0 == {0}
        g1 == g0 \cup SpacePlus(s, Lit(s, "sudo", g0))
        g2 == g1 \cup SpacePlus(s, Lit(s, "command", g1))
        g3 == g2 \cup Lit(s, "\\", g2)
        g4 == g3 \cup Lit(s, "/", NonSpaceStar(s, g3))
    IN  SpaceOrEnd(s, Lit(s, "rm", g4)) # {}

RM_PATTERN(s) ==
    LET g0 == AfterSeparator(s)
        g1 == g0 \cup SpacePlus(s, Lit(s, "sudo", g0))
        g2 == g1 \cup SpacePlus(s, Lit(s, "command", g1))
        g3 == g2 \cup Lit(s, "\\", g2)
        g4 == g3 \cup Lit(s, "/", NonSpaceStar(s, g3))
    IN  SpaceOrEnd(s, Lit(s, "rm", g4)) # {}

is_rm_command(cmd) == RM_PATTERN(cmd)

----------------------------------------------------------------------------
(* Destructive find command detection *)

FindArgs(s) == DotStar(s, SpacePlus(s, LitI(s, "find", 0..Len(s))))

OptSudo(s, P) == P \cup SpacePlus(s, LitI(s, "sudo", P))

RmOrRmdir(s, P) == LitI(s, "rm", P) \cup LitI(s, "rmdir", P)

(* Variant: the -exec rm/rmdir pattern is tried before the -delete pattern *)
DESTRUCTIVE_PATTERNS_ExecFirst == <<
    [re |-> "exec",    description |-> "find with -exec rm/rmdir"],
    [re |-> "delete",  description |-> "find with -delete option"],
    [re |-> "execdir", description |-> "find with -execdir rm/rmdir"],
    [re |-> "xargs",   description |-> "find piped to xargs rm/rmdir"],
    [re |-> "execmv",  description |-> "find with -exec mv"],
    [re |-> "ok",      description |-> "find with -ok rm/rmdir"] >>

DESTRUCTIVE_PATTERNS == <<
    [re |-> "delete",  description |-> "find with -delete option"],
    [re |-> "exec",    description |-> "find with -exec rm/rmdir"],
    [re |-> "execdir", description |-> "find with -execdir rm/rmdir"],
    [re |-> "xargs",   description |-> "find piped to xargs rm/rmdir"],
    [re |-> "execmv",  description |-> "find with -exec mv"],
    [re |-> "ok",      description |-> "find with -ok rm/rmdir"] >>

(* Variant: the -exec rm/rmdir pattern accepts any command after -exec *)
DestructiveRegex_ExecAnyCommand(re, s) ==
    CASE re = "delete"  -> LitI(s, "-delete", FindArgs(s)) # {}
      [] re = "exec"    -> SpacePlus(s, LitI(s, "-exec", FindArgs(s))) # {}
      [] re = "execdir" -> Space1(s, RmOrRmdir(s, OptSudo(s,
                               SpacePlus(s, LitI(s, "-execdir", FindArgs(s)))))) # {}
      [] re = "xargs"   -> RmOrRmdir(s, OptSudo(s, SpacePlus(s, LitI(s, "xargs",
                               OptSudo(s, SpaceStar(s, LitI(s, "|", FindArgs(s)))))))) # {}
      [] re = "execmv"  -> Space1(s, LitI(s, "mv", OptSudo(s,
                               SpacePlus(s, LitI(s, "-exec", FindArgs(s)))))) # {}
      [] re = "ok"      -> Space1(s, RmOrRmdir(s, OptSudo(s,
                               SpacePlus(s, LitI(s, "-ok", FindArgs(s)))))) # {}

DestructiveRegex(re, s) ==
    CASE re = "delete"  -> LitI(s, "-delete", FindArgs(s)) # {}
      [] re = "exec"    -> Space1(s, RmOrRmdir(s, OptSudo(s,
                               SpacePlus(s, LitI(s, "-exec", FindArgs(s)))))) # {}
      [] re = "execdir" -> Space1(s, RmOrRmdir(s, OptSudo(s,
                               SpacePlus(s, LitI(s, "-execdir", FindArgs(s)))))) # {}
      [] re = "xargs"   -> RmOrRmdir(s, OptSudo(s, SpacePlus(s, LitI(s, "xargs",
                               OptSudo(s, SpaceStar(s, LitI(s, "|", FindArgs(s)))))))) # {}
      [] re = "execmv"  -> Space1(s, LitI(s, "mv", OptSudo(s,
                               SpacePlus(s, LitI(s, "-exec", FindArgs(s)))))) # {}
      [] re = "ok"      -> Space1(s, RmOrRmdir(s, OptSudo(s,
                               SpacePlus(s, LitI(s, "-ok", FindArgs(s)))))) # {}

FIND_CHECK(s) == Space1(s, Lit(s, "find", AfterSeparator(s))) # {}

RECURSIVE DestructiveLoop(_, _)
DestructiveLoop(cmd, n) ==
    IF n > Len(DESTRUCTIVE_PATTERNS) THEN None
    ELSE IF DestructiveRegex(DESTRUCTIVE_PATTERNS[n].re, cmd)
         THEN Some(DESTRUCTIVE_PATTERNS[n].description)
         ELSE DestructiveLoop(cmd, n + 1)

(* Variant: the sub-patterns are tried without the find gate *)
check_destructive_find_NoGate(cmd) == DestructiveLoop(cmd, 1)

check_destructive_find(cmd) ==
    IF ~FIND_CHECK(cmd) THEN None ELSE DestructiveLoop(cmd, 1)

----------------------------------------------------------------------------
(* Rust #[allow(...)] / #[expect(...)] detection *)

RUST_ALLOW_PATTERN == "allow"

RUST_EXPECT_PATTERN == "expect"

(* AttributeRegex: the ends of the matches of `#!?\[<marker>\s*\(` that   *)
(* start at p.  find_iter: the offsets where the pattern matches.  Two matches of the pattern *)
(* cannot overlap (a match holds one `#`, at its start), so these are the  *)
(* starts that find_iter yields.                                           *)
AttributeRegex(content, pattern, p) ==
    LET g0 == Lit(content, "#", {p})
        g1 == g0 \cup Lit(content, "!", g0)
        g2 == Lit(content, pattern, Lit(content, "[", g1))
    IN  Lit(content, "(", SpaceStar(content, g2))

find_iter(content, pattern) ==
    {p \in 0..Len(content) : AttributeRegex(content, pattern, p) # {}}

(* while j < bytes.len() && bytes[j] == b'#' { j += 1; } *)
RECURSIVE SkipHashes(_, _)
SkipHashes(bytes, j) ==
    IF j < Len(bytes) /\ At(bytes, j) = "#" THEN SkipHashes(bytes, j + 1) ELSE j

(* Variant: the search for the closing quote stops at any quote *)
RECURSIVE FindClosingQuote_AnyQuote(_, _)
FindClosingQuote_AnyQuote(bytes, k) ==
    IF k < Len(bytes)
    THEN IF At(bytes, k) = "\""
         THEN k
         ELSE FindClosingQuote_AnyQuote(bytes, k + 1)
    ELSE k

(* while k < bytes.len() { if bytes[k] == b'"' && bytes[k - 1] != b'\\' { break; } k += 1; } *)
RECURSIVE FindClosingQuote(_, _)
FindClosingQuote(bytes, k) ==
    IF k < Len(bytes)
    THEN IF At(bytes, k) = "\"" /\ At(bytes, k - 1) # "\\"
         THEN k
         ELSE FindClosingQuote(bytes, k + 1)
    ELSE k

(* Variant: in raw-string mode a quote after a backslash does not leave the mode *)
RECURSIVE StringWalk_RawHonoursEscape(_, _, _)
StringWalk_RawHonoursEscape(bytes, i, in_raw_string) ==
    IF ~(i < Len(bytes)) THEN in_raw_string
    ELSE IF in_raw_string
    THEN StringWalk_RawHonoursEscape(bytes, i + 1,
             IF At(bytes, i) = "\"" /\ At(bytes, i - 1) # "\\" THEN FALSE ELSE TRUE)
    ELSE LET j == SkipHashes(bytes, i + 1)
             k == FindClosingQuote(bytes, i + 1)
         IN  IF /\ At(bytes, i) = "r" /\ i + 1 < Len(bytes)
                /\ j < Len(bytes) /\ At(bytes, j) = "\""
             THEN StringWalk_RawHonoursEscape(bytes, j + 1, TRUE)
             ELSE IF At(bytes, i) = "\"" /\ (i = 0 \/ At(bytes, i - 1) # "\\")
             THEN IF k >= Len(bytes) THEN TRUE
                  ELSE StringWalk_RawHonoursEscape(bytes, k + 1, FALSE)
             ELSE StringWalk_RawHonoursEscape(bytes, i + 1, FALSE)

(* The outer loop over the prefix; the value is the function's result from *)
(* the state (i, in_raw_string) on.                                        *)
RECURSIVE StringWalk(_, _, _)
StringWalk(bytes, i, in_raw_string) ==
    IF ~(i < Len(bytes)) THEN in_raw_string
    ELSE IF in_raw_string
    THEN StringWalk(bytes, i + 1, IF At(bytes, i) = "\"" THEN FALSE ELSE TRUE)
    ELSE LET j == SkipHashes(bytes, i + 1)
             k == FindClosingQuote(bytes, i + 1)
         IN  IF /\ At(bytes, i) = "r" /\ i + 1 < Len(bytes)
                /\ j < Len(bytes) /\ At(bytes, j) = "\""
             THEN StringWalk(bytes, j + 1, TRUE)
             ELSE IF At(bytes, i) = "\"" /\ (i = 0 \/ At(bytes, i - 1) # "\\")
             THEN IF k >= Len(bytes) THEN TRUE
                  ELSE StringWalk(bytes, k + 1, FALSE)
             ELSE StringWalk(bytes, i + 1, FALSE)

(* One iteration of the outer loop, from the locals (i, in_raw_string):    *)
(* WalkReads is the set of indices at which the iteration reads bytes[..], *)
(* WalkStep the locals after it, with returned set when the iteration      *)
(* executes `return true`.                                                 *)
QuoteSearchReads(bytes, i) ==
    LET k == FindClosingQuote(bytes, i + 1)
    IN  {x \in (i + 1)..k : x < Len(bytes)}
            \cup {x - 1 : x \in {y \in (i + 1)..k : y < Len(bytes) /\ At(bytes, y) = "\""}}

(* Variant: bytes[i - 1] is read without the test i == 0 *)
WalkReads_NoStartGuard(bytes, i, in_raw_string) ==
    IF in_raw_string THEN {i}
    ELSE LET j == SkipHashes(bytes, i + 1)
             hashes == IF At(bytes, i) = "r" /\ i + 1 < Len(bytes)
                       THEN {x \in (i + 1)..j : x < Len(bytes)} ELSE {}
             enters == /\ At(bytes, i) = "r" /\ i + 1 < Len(bytes)
                       /\ j < Len(bytes) /\ At(bytes, j) = "\""
         IN  IF enters THEN {i} \cup hashes
             ELSE IF At(bytes, i) = "\""
             THEN (({i} \cup hashes) \cup {i - 1})
                      \cup (IF i = 0 \/ At(bytes, i - 1) # "\\"
                            THEN QuoteSearchReads(bytes, i) ELSE {})
             ELSE {i} \cup hashes

WalkReads(bytes, i, in_raw_string) ==
    IF in_raw_string THEN {i}
    ELSE LET j == SkipHashes(bytes, i + 1)
             hashes == IF At(bytes, i) = "r" /\ i + 1 < Len(bytes)
                       THEN {x \in (i + 1)..j : x < Len(bytes)} ELSE {}
             enters == /\ At(bytes, i) = "r" /\ i + 1 < Len(bytes)
                       /\ j < Len(bytes) /\ At(bytes, j) = "\""
         IN  IF enters THEN {i} \cup hashes
             ELSE IF At(bytes, i) = "\""
             THEN (({i} \cup hashes) \cup (IF i = 0 THEN {} ELSE {i - 1}))
                      \cup (IF i = 0 \/ At(bytes, i - 1) # "\\"
                            THEN QuoteSearchReads(bytes, i) ELSE {})
             ELSE {i} \cup hashes

WalkStep(bytes, i, in_raw_string) ==
    IF in_raw_string
    THEN [i |-> i + 1, in_raw_string |-> At(bytes, i) # "\"", returned |-> FALSE]
    ELSE LET j == SkipHashes(bytes, i + 1)
             k == FindClosingQuote(bytes, i + 1)
         IN  IF /\ At(bytes, i) = "r" /\ i + 1 < Len(bytes)
                /\ j < Len(bytes) /\ At(bytes, j) = "\""
             THEN [i |-> j + 1, in_raw_string |-> TRUE, returned |-> FALSE]
             ELSE IF At(bytes, i) = "\"" /\ (i = 0 \/ At(bytes, i - 1) # "\\")
             THEN IF k >= Len(bytes)
                  THEN [i |-> i, in_raw_string |-> FALSE, returned |-> TRUE]
                  ELSE [i |-> k + 1, in_raw_string |-> FALSE, returned |-> FALSE]
             ELSE [i |-> i + 1, in_raw_string |-> FALSE, returned |-> FALSE]

rfind_newline(before) ==
    LET nl == {p \in 0..(Len(before) - 1) : At(before, p) = "\n"}
    IN  IF nl = {} THEN None ELSE Some(CHOOSE p \in nl : \A q \in nl : q <= p)

(* Variant: the block-comment tally compares the counts the wrong way round *)
is_in_comment_or_string_TallySwapped(content, match_start) ==
    LET before       == Slice(content, 0, match_start)
        last_nl      == rfind_newline(before)
        line_start   == IF last_nl = None THEN 0 ELSE last_nl[1] + 1
        current_line == Slice(before, line_start, Len(before))
        block_open   == matches_count(before, "/*")
        block_close  == matches_count(before, "*/")
    IN  IF contains(current_line, "//") THEN TRUE
        ELSE IF block_close > block_open THEN TRUE
        ELSE StringWalk(before, 0, FALSE)

(* Variant: the line-comment check is left out *)
is_in_comment_or_string_NoLineCheck(content, match_start) ==
    LET before       == Slice(content, 0, match_start)
        block_open   == matches_count(before, "/*")
        block_close  == matches_count(before, "*/")
    IN  IF block_open > block_close THEN TRUE
        ELSE StringWalk(before, 0, FALSE)

(* Variant: the block-comment tally fires when the counts are equal *)
is_in_comment_or_string_TallyOffByOne(content, match_start) ==
    LET before       == Slice(content, 0, match_start)
        last_nl      == rfind_newline(before)
        line_start   == IF last_nl = None THEN 0 ELSE last_nl[1] + 1
        current_line == Slice(before, line_start, Len(before))
        block_open   == matches_count(before, "/*")
        block_close  == matches_count(before, "*/")
    IN  IF contains(current_line, "//") THEN TRUE
        ELSE IF block_open >= block_close THEN TRUE
        ELSE StringWalk(before, 0, FALSE)

(* Variant: the line-comment marker is searched in the whole prefix *)
is_in_comment_or_string_WholePrefix(content, match_start) ==
    LET before       == Slice(content, 0, match_start)
        block_open   == matches_count(before, "/*")
        block_close  == matches_count(before, "*/")
    IN  IF contains(before, "//") THEN TRUE
        ELSE IF block_open > block_close THEN TRUE
        ELSE StringWalk(before, 0, FALSE)

(* Variant: the block-comment tally is left out *)
is_in_comment_or_string_NoBlockCheck(content, match_start) ==
    LET before       == Slice(content, 0, match_start)
        last_nl      == rfind_newline(before)
        line_start   == IF last_nl = None THEN 0 ELSE last_nl[1] + 1
        current_line == Slice(before, line_start, Len(before))
    IN  IF contains(current_line, "//") THEN TRUE
        ELSE StringWalk(before, 0, FALSE)

is_in_comment_or_string(content, match_start) ==
    LET before       == Slice(content, 0, match_start)
        last_nl      == rfind_newline(before)
        line_start   == IF last_nl = None THEN 0 ELSE last_nl[1] + 1
        current_line == Slice(before, line_start, Len(before))
        block_open   == matches_count(before, "/*")
        block_close  == matches_count(before, "*/")
    IN  IF contains(current_line, "//") THEN TRUE
        ELSE IF block_open > block_close THEN TRUE
        ELSE StringWalk(before, 0, FALSE)

find_real_matches(content, pattern) ==
    \E m \in find_iter(content, pattern) : ~is_in_comment_or_string(content, m)

(* Variant: the expect marker is searched with the allow pattern *)
check_rust_allow_attributes_SamePattern(content) ==
    LET has_allow  == find_real_matches(content, RUST_ALLOW_PATTERN)
        has_expect == find_real_matches(content, RUST_ALLOW_PATTERN)
    IN  CASE has_allow /\ has_expect   -> "HasBoth"
          [] has_allow /\ ~has_expect  -> "HasAllow"
          [] ~has_allow /\ has_expect  -> "HasExpect"
          [] ~has_allow /\ ~has_expect -> "Ok"

check_rust_allow_attributes(content) ==
    LET has_allow  == find_real_matches(content, RUST_ALLOW_PATTERN)
        has_expect == find_real_matches(content, RUST_EXPECT_PATTERN)
    IN  CASE has_allow /\ has_expect   -> "HasBoth"
          [] has_allow /\ ~has_expect  -> "HasAllow"
          [] ~has_allow /\ has_expect  -> "HasExpect"
          [] ~has_allow /\ ~has_expect -> "Ok"

----------------------------------------------------------------------------
(* is_rust_file: std::path::Path::extension on a '/'-separated path *)

RECURSIVE file_name(_)
file_name(path) ==
    IF path = "" THEN None
    ELSE IF At(path, Len(path) - 1) = "/" THEN file_name(Slice(path, 0, Len(path) - 1))
    ELSE LET seps  == {p \in 0..(Len(path) - 1) : At(path, p) = "/"}
             start == IF seps = {} THEN 0
                      ELSE 1 + CHOOSE p \in seps : \A q \in seps : q <= p
             comp  == Slice(path, start, Len(path))
         IN  IF comp = "."
             THEN IF start = 0 THEN None ELSE file_name(Slice(path, 0, start))
             ELSE IF comp = ".." THEN None
             ELSE Some(comp)

extension(path) ==
    LET name == file_name(path)
    IN  IF name = None THEN None
        ELSE LET file == name[1]
                 dots == {p \in 0..(Len(file) - 1) : At(file, p) = "."}
                 last == CHOOSE p \in dots : \A q \in dots : q <= p
             IN  IF dots = {} THEN None
                 ELSE IF last = 0 THEN None
                 ELSE Some(Slice(file, last + 1, Len(file)))

(* Variant: the path is tested for the suffix "rs" instead of its extension *)
is_rust_file_EndsWith(file_path) ==
    /\ Len(file_path) >= 2
    /\ eq_ignore_ascii_case(Slice(file_path, Len(file_path) - 2, Len(file_path)), "rs")

is_rust_file(file_path) ==
    LET ext == extension(file_path)
    IN  ext # None /\ eq_ignore_ascii_case(ext[1], "rs")

----------------------------------------------------------------------------
(* Command handlers of agent_hooks/claude.  A handler maps the flags and   *)
(* the decoded stdin (None when decoding fails) to the sequence of         *)
(* HookOutput values it passes to output_hook_result.                      *)

RmDenyMessage ==
    "rm is forbidden. Use trash command to delete files. Example: trash <path...>"

RmDenyOutput ==
    [hook_event_name            |-> "PermissionRequest",
     decision                   |-> Some([behavior |-> "deny", message |-> RmDenyMessage]),
     permission_decision        |-> None,
     permission_decision_reason |-> None]

(* Variant: the full stop after the description is left out *)
FindAskReason_NoFullStop(description) ==
    "Destructive find command detected: " \o description
        \o " This operation may delete or modify files. Please confirm."

FindAskReason(description) ==
    "Destructive find command detected: " \o description
        \o ". This operation may delete or modify files. Please confirm."

FindAskOutput(description) ==
    [hook_event_name            |-> "PermissionRequest",
     decision                   |-> None,
     permission_decision        |-> Some("ask"),
     permission_decision_reason |-> Some(FindAskReason(description))]

CommandOf(input) ==
    IF input[1].tool_input = None THEN ""
    ELSE unwrap_or_default(input[1].tool_input[1].command)

(* Variant: the handler goes on to the destructive-find check after the rm deny *)
permission_request_NoReturnAfterDeny(block_rm, confirm_destructive_find, input) ==
    IF ~block_rm /\ ~confirm_destructive_find THEN << >>
    ELSE IF input = None THEN << >>
    ELSE IF input[1].tool_name # Some("Bash") THEN << >>
    ELSE LET cmd         == CommandOf(input)
             description == check_destructive_find(cmd)
         IN  IF cmd = "" THEN << >>
             ELSE (IF block_rm /\ is_rm_command(cmd) THEN << RmDenyOutput >> ELSE << >>)
                  \o (IF confirm_destructive_find /\ description # None
                      THEN << FindAskOutput(description[1]) >> ELSE << >>)

(* Variant: the destructive-find check runs before the rm check *)
permission_request_FindFirst(block_rm, confirm_destructive_find, input) ==
    IF ~block_rm /\ ~confirm_destructive_find THEN << >>
    ELSE IF input = None THEN << >>
    ELSE IF input[1].tool_name # Some("Bash") THEN << >>
    ELSE LET cmd == CommandOf(input)
         IN  IF cmd = "" THEN << >>
             ELSE IF confirm_destructive_find /\ check_destructive_find(cmd) # None
             THEN << FindAskOutput(check_destructive_find(cmd)[1]) >>
             ELSE IF block_rm /\ is_rm_command(cmd) THEN << RmDenyOutput >>
             ELSE << >>

(* Variant: once any check is enabled, both checks run *)
permission_request_IgnoresFlags(block_rm, confirm_destructive_find, input) ==
    IF ~block_rm /\ ~confirm_destructive_find THEN << >>
    ELSE IF input = None THEN << >>
    ELSE IF input[1].tool_name # Some("Bash") THEN << >>
    ELSE LET cmd == CommandOf(input)
         IN  IF cmd = "" THEN << >>
             ELSE IF is_rm_command(cmd) THEN << RmDenyOutput >>
             ELSE IF check_destructive_find(cmd) # None
             THEN << FindAskOutput(check_destructive_find(cmd)[1]) >>
             ELSE << >>

permission_request(block_rm, confirm_destructive_find, input) ==
    IF ~block_rm /\ ~confirm_destructive_find THEN << >>
    ELSE IF input = None THEN << >>
    ELSE IF input[1].tool_name # Some("Bash") THEN << >>
    ELSE LET cmd == CommandOf(input)
         IN  IF cmd = "" THEN << >>
             ELSE IF block_rm /\ is_rm_command(cmd) THEN << RmDenyOutput >>
             ELSE IF confirm_destructive_find
                  THEN LET description == check_destructive_find(cmd)
                       IN  IF description # None
                           THEN << FindAskOutput(description[1]) >>
                           ELSE << >>
                  ELSE << >>

AllowUseExpectMessage ==
    "Adding #[allow(...)] or #![allow(...)] attributes is not permitted. Use #[expect(...)] instead, which will warn when the lint is no longer triggered."

BothMessage ==
    "Adding #[allow(...)] or #[expect(...)] attributes is not permitted. Fix the underlying issue instead of suppressing the warning."

AllowMessage ==
    "Adding #[allow(...)] or #![allow(...)] attributes is not permitted. Fix the underlying issue instead of suppressing the warning."

ExpectMessage ==
    "Adding #[expect(...)] or #![expect(...)] attributes is not permitted. Fix the underlying issue instead of suppressing the warning."

(* Variant: the context is appended without the separating space *)
PushContext_NoSpace(msg, additional_context) ==
    IF additional_context # None THEN msg \o additional_context[1] ELSE msg

(* if let Some(ref ctx) = additional_context { msg.push(' '); msg.push_str(ctx); } *)
PushContext(msg, additional_context) ==
    IF additional_context # None THEN (msg \o " ") \o additional_context[1] ELSE msg

(* Variant: strict mode gives the allow and the expect findings each other's message *)
denial_reason_SwappedMessages(expect_flag, additional_context, check_result) ==
    IF expect_flag
    THEN IF check_result \in {"HasAllow", "HasBoth"}
         THEN Some(PushContext(AllowUseExpectMessage, additional_context))
         ELSE None
    ELSE CASE check_result = "Ok"        -> None
           [] check_result = "HasBoth"   -> Some(PushContext(BothMessage, additional_context))
           [] check_result = "HasAllow"  -> Some(PushContext(ExpectMessage, additional_context))
           [] check_result = "HasExpect" -> Some(PushContext(AllowMessage, additional_context))

(* Variant: lenient mode denies the allow-only finding but lets HasBoth through *)
denial_reason_LenientAllowOnly(expect_flag, additional_context, check_result) ==
    IF expect_flag
    THEN IF check_result = "HasAllow"
         THEN Some(PushContext(AllowUseExpectMessage, additional_context))
         ELSE None
    ELSE CASE check_result = "Ok"        -> None
           [] check_result = "HasBoth"   -> Some(PushContext(BothMessage, additional_context))
           [] check_result = "HasAllow"  -> Some(PushContext(AllowMessage, additional_context))
           [] check_result = "HasExpect" -> Some(PushContext(ExpectMessage, additional_context))

(* Variant: strict mode lets a buffer with both attributes through *)
denial_reason_StrictSkipsBoth(expect_flag, additional_context, check_result) ==
    IF expect_flag
    THEN IF check_result \in {"HasAllow", "HasBoth"}
         THEN Some(PushContext(AllowUseExpectMessage, additional_context))
         ELSE None
    ELSE CASE check_result = "Ok"        -> None
           [] check_result = "HasBoth"   -> None
           [] check_result = "HasAllow"  -> Some(PushContext(AllowMessage, additional_context))
           [] check_result = "HasExpect" -> Some(PushContext(ExpectMessage, additional_context))

denial_reason(expect_flag, additional_context, check_result) ==
    IF expect_flag
    THEN IF check_result \in {"HasAllow", "HasBoth"}
         THEN Some(PushContext(AllowUseExpectMessage, additional_context))
         ELSE None
    ELSE CASE check_result = "Ok"        -> None
           [] check_result = "HasBoth"   -> Some(PushContext(BothMessage, additional_context))
           [] check_result = "HasAllow"  -> Some(PushContext(AllowMessage, additional_context))
           [] check_result = "HasExpect" -> Some(PushContext(ExpectMessage, additional_context))

(* Variant: the attribute denial carries the PermissionRequest event name *)
PreToolUseDenyOutput_WrongEvent(reason) ==
    [hook_event_name            |-> "PermissionRequest",
     decision                   |-> None,
     permission_decision        |-> Some("deny"),
     permission_decision_reason |-> Some(reason)]

PreToolUseDenyOutput(reason) ==
    [hook_event_name            |-> "PreToolUse",
     decision                   |-> None,
     permission_decision        |-> Some("deny"),
     permission_decision_reason |-> Some(reason)]

(* Variant: the full content is preferred to the replacement text *)
pre_tool_use_ContentFirst(deny_rust_allow_enabled, expect_flag, additional_context, input) ==
    IF ~deny_rust_allow_enabled THEN << >>
    ELSE IF input = None THEN << >>
    ELSE IF input[1].tool_name = None THEN << >>
    ELSE IF input[1].tool_name[1] \notin {"Edit", "Write"} THEN << >>
    ELSE IF input[1].tool_input = None THEN << >>
    ELSE LET tool_input == input[1].tool_input[1]
             file_path  == unwrap_or_default(tool_input.file_path)
             content    == unwrap_or_default(or(tool_input.content, tool_input.new_string))
         IN  IF ~is_rust_file(file_path) THEN << >>
             ELSE IF content = "" THEN << >>
             ELSE LET reason == denial_reason(expect_flag, additional_context,
                                              check_rust_allow_attributes(content))
                  IN  IF reason # None THEN << PreToolUseDenyOutput(reason[1]) >>
                      ELSE << >>

(* Variant: the Rust-file test is applied only when a file path is present *)
pre_tool_use_MissingPathPasses(deny_rust_allow_enabled, expect_flag, additional_context, input) ==
    IF ~deny_rust_allow_enabled THEN << >>
    ELSE IF input = None THEN << >>
    ELSE IF input[1].tool_name = None THEN << >>
    ELSE IF input[1].tool_name[1] \notin {"Edit", "Write"} THEN << >>
    ELSE IF input[1].tool_input = None THEN << >>
    ELSE LET tool_input == input[1].tool_input[1]
             content    == unwrap_or_default(or(tool_input.new_string, tool_input.content))
         IN  IF tool_input.file_path # None /\ ~is_rust_file(tool_input.file_path[1])
             THEN << >>
             ELSE IF content = "" THEN << >>
             ELSE LET reason == denial_reason(expect_flag, additional_context,
                                              check_rust_allow_attributes(content))
                  IN  IF reason # None THEN << PreToolUseDenyOutput(reason[1]) >>
                      ELSE << >>

pre_tool_use(deny_rust_allow_enabled, expect_flag, additional_context, input) ==
    IF ~deny_rust_allow_enabled THEN << >>
    ELSE IF input = None THEN << >>
    ELSE IF input[1].tool_name = None THEN << >>
    ELSE IF input[1].tool_name[1] \notin {"Edit", "Write"} THEN << >>
    ELSE IF input[1].tool_input = None THEN << >>
    ELSE LET tool_input == input[1].tool_input[1]
             file_path  == unwrap_or_default(tool_input.file_path)
             content    == unwrap_or_default(or(tool_input.new_string, tool_input.content))
         IN  IF ~is_rust_file(file_path) THEN << >>
             ELSE IF content = "" THEN << >>
             ELSE LET reason == denial_reason(expect_flag, additional_context,
                                              check_rust_allow_attributes(content))
                  IN  IF reason # None THEN << PreToolUseDenyOutput(reason[1]) >>
                      ELSE << >>

----------------------------------------------------------------------------
(* The claude_hooks front end.  Its regex statics, the pattern table and   *)
(* the scanner are the text of the core library's, and the operators above *)
(* stand for both; the hook functions and the two handlers are its own.    *)

claude_hooks_block_rm(cmd) ==
    IF RM_PATTERN(cmd)
    THEN Some([hook_event_name            |-> "PermissionRequest",
               decision                   |-> Some([behavior |-> "deny",
                                                    message  |-> "rm is forbidden. Use trash command to delete files. Example: trash <path...>"]),
               permission_decision        |-> None,
               permission_decision_reason |-> None])
    ELSE None

RECURSIVE ConfirmLoop(_, _)
ConfirmLoop(cmd, n) ==
    IF n > Len(DESTRUCTIVE_PATTERNS) THEN None
    ELSE IF DestructiveRegex(DESTRUCTIVE_PATTERNS[n].re, cmd)
         THEN Some([hook_event_name            |-> "PermissionRequest",
                    decision                   |-> None,
                    permission_decision        |-> Some("ask"),
                    permission_decision_reason |->
                        Some(("Destructive find command detected: "
                                 \o DESTRUCTIVE_PATTERNS[n].description)
                                 \o ". This operation may delete or modify files. Please confirm.")])
         ELSE ConfirmLoop(cmd, n + 1)

claude_hooks_confirm_destructive_find(cmd) ==
    IF ~FIND_CHECK(cmd) THEN None ELSE ConfirmLoop(cmd, 1)

(* Variant: a buffer with both attributes gets the allow message *)
deny_rust_allow_NoBothMessage(tool_name, tool_input, options) ==
    IF tool_name # "Edit" /\ tool_name # "Write" THEN None
    ELSE LET file_path  == unwrap_or_default(tool_input.file_path)
             ext        == extension(file_path)
             content    == unwrap_or_default(or(tool_input.new_string, tool_input.content))
             has_allow  == find_real_matches(content, RUST_ALLOW_PATTERN)
             has_expect == find_real_matches(content, RUST_EXPECT_PATTERN)
             denial     ==
                 IF options.expect
                 THEN IF has_allow
                      THEN Some(PushContext("Adding #[allow(...)] or #![allow(...)] attributes is not permitted. Use #[expect(...)] instead, which will warn when the lint is no longer triggered.",
                                            options.additional_context))
                      ELSE None
                 ELSE IF has_allow \/ has_expect
                      THEN Some(PushContext(
                                IF has_allow
                                THEN "Adding #[allow(...)] or #![allow(...)] attributes is not permitted. Fix the underlying issue instead of suppressing the warning."
                                ELSE "Adding #[expect(...)] or #![expect(...)] attributes is not permitted. Fix the underlying issue instead of suppressing the warning.",
                                options.additional_context))
                      ELSE None
         IN  IF ~(ext # None /\ eq_ignore_ascii_case(ext[1], "rs")) THEN None
             ELSE IF content = "" THEN None
             ELSE IF denial = None THEN None
             ELSE Some([hook_event_name            |-> "PreToolUse",
                        decision                   |-> None,
                        permission_decision        |-> Some("deny"),
                        permission_decision_reason |-> Some(denial[1])])

deny_rust_allow(tool_name, tool_input, options) ==
    IF tool_name # "Edit" /\ tool_name # "Write" THEN None
    ELSE LET file_path  == unwrap_or_default(tool_input.file_path)
             ext        == extension(file_path)
             content    == unwrap_or_default(or(tool_input.new_string, tool_input.content))
             has_allow  == find_real_matches(content, RUST_ALLOW_PATTERN)
             has_expect == find_real_matches(content, RUST_EXPECT_PATTERN)
             denial     ==
                 IF options.expect
                 THEN IF has_allow
                      THEN Some(PushContext("Adding #[allow(...)] or #![allow(...)] attributes is not permitted. Use #[expect(...)] instead, which will warn when the lint is no longer triggered.",
                                            options.additional_context))
                      ELSE None
                 ELSE IF has_allow \/ has_expect
                      THEN Some(PushContext(
                                IF has_allow /\ has_expect
                                THEN "Adding #[allow(...)] or #[expect(...)] attributes is not permitted. Fix the underlying issue instead of suppressing the warning."
                                ELSE IF has_allow
                                THEN "Adding #[allow(...)] or #![allow(...)] attributes is not permitted. Fix the underlying issue instead of suppressing the warning."
                                ELSE "Adding #[expect(...)] or #![expect(...)] attributes is not permitted. Fix the underlying issue instead of suppressing the warning.",
                                options.additional_context))
                      ELSE None
         IN  IF ~(ext # None /\ eq_ignore_ascii_case(ext[1], "rs")) THEN None
             ELSE IF content = "" THEN None
             ELSE IF denial = None THEN None
             ELSE Some([hook_event_name            |-> "PreToolUse",
                        decision                   |-> None,
                        permission_decision        |-> Some("deny"),
                        permission_decision_reason |-> Some(denial[1])])

(* Variant: the destructive-find hook is asked before the rm hook *)
claude_hooks_permission_request_FindFirst(input) ==
    IF input = None THEN << >>
    ELSE IF unwrap_or_default(input[1].tool_name) # "Bash" THEN << >>
    ELSE LET cmd    == CommandOf(input)
             output == or(claude_hooks_confirm_destructive_find(cmd), claude_hooks_block_rm(cmd))
         IN  IF cmd = "" THEN << >>
             ELSE IF output # None THEN << output[1] >> ELSE << >>

(* permission_request_action of claude_hooks: the outputs it prints *)
claude_hooks_permission_request(input) ==
    IF input = None THEN << >>
    ELSE IF unwrap_or_default(input[1].tool_name) # "Bash" THEN << >>
    ELSE LET cmd    == CommandOf(input)
             output == or(claude_hooks_block_rm(cmd), claude_hooks_confirm_destructive_find(cmd))
         IN  IF cmd = "" THEN << >>
             ELSE IF output # None THEN << output[1] >> ELSE << >>

(* deny_rust_allow_action of claude_hooks: the outputs it prints *)
claude_hooks_deny_rust_allow(expect, additional_context, input) ==
    IF input = None THEN << >>
    ELSE LET tool_name == unwrap_or_default(input[1].tool_name)
         IN  IF tool_name # "Edit" /\ tool_name # "Write" THEN << >>
             ELSE IF input[1].tool_input = None THEN << >>
             ELSE LET options == [expect |-> expect, additional_context |-> additional_context]
                      output  == deny_rust_allow(tool_name, input[1].tool_input[1], options)
                  IN  IF output # None THEN << output[1] >> ELSE << >>

----------------------------------------------------------------------------
(* Inputs *)

MaxCmdWords == 3

MaxContentWords == 2

MaxBufferWords == 4

RECURSIVE Texts(_, _)
Texts(words, n) ==
    IF n = 0 THEN {""}
    ELSE LET shorter == Texts(words, n - 1)
         IN  shorter \cup {t \o w : t \in shorter, w \in words}

CmdWords ==
    {"rm", "sudo ", " -rf x", "find . ", "-delete", "-exec rm x ", "; rm x", "ls ",
     "| xargs rm"}

ContentWords ==
    {"#[allow(dead_code)]", "#![expect(unused)]", "// ", "\n", "fn f(){}"}

BufferWords ==
    {"#[allow(", "#![expect (", "//", "/*", "*/", "\"", "\\", "r#\"", "\n", "x"}

ToolNames == {None, Some("Bash"), Some("Edit"), Some("Write"), Some("Read")}

FilePaths ==
    {None, Some("src/main.rs"), Some("/path/to/file.RS"), Some("README.md"),
     Some("rs"), Some(".rs"), Some("a.rs/")}

ContentFields == {None, Some(""), Some("#[expect(x)]")}

Contexts == {None, Some("See CONTRIBUTING.md")}

HookInput(tool_name, tool_input) == Some([tool_name |-> tool_name, tool_input |-> tool_input])

ToolInput(command, new_string, content, file_path) ==
    Some([command |-> command, new_string |-> new_string,
          content |-> content, file_path |-> file_path])

(* Commands with a vertical tab as white space *)
VerticalTabCommands ==
    {"rm-rf x", "sudorm x", "/rm", "find. -delete", "ls;find .-execrm x "}

BashToolInputs ==
    {None, ToolInput(None, None, None, None)}
        \cup {ToolInput(Some(c), None, None, None) :
                 c \in Texts(CmdWords, MaxCmdWords) \cup VerticalTabCommands}

(* A content with a vertical tab before the parenthesis *)
VerticalTabContents == {"#![expect (unused)]"}

EditToolInputs ==
    {None} \cup
    {ToolInput(None, n, c, f) :
        n \in {None} \cup {Some(t) : t \in Texts(ContentWords, MaxContentWords)
                                           \cup VerticalTabContents},
        c \in ContentFields, f \in FilePaths}

(* Events of the tools a handler does not look at carry one payload each *)
OtherToolInputs ==
    {None, ToolInput(Some("sudo rm -rf x"), Some("#[allow(dead_code)]"),
                     Some("#[expect(x)]"), Some("src/main.rs"))}

PermissionRequestInputs ==
    {None} \cup {HookInput(Some("Bash"), i) : i \in BashToolInputs}
           \cup {HookInput(t, i) : t \in ToolNames \ {Some("Bash")}, i \in OtherToolInputs}

PreToolUseInputs ==
    {None} \cup {HookInput(t, i) : t \in {Some("Edit"), Some("Write")}, i \in EditToolInputs}
           \cup {HookInput(t, i) : t \in ToolNames \ {Some("Edit"), Some("Write")},
                                    i \in OtherToolInputs}

VerticalTabBuffers ==
    {(b \o m) \o ("" \o e) : b \in {"", "// ", "\""}, m \in {"#[allow", "#![expect "},
                               e \in {"(x)]", "[x]"}}

Buffers == Texts(BufferWords, MaxBufferWords) \cup VerticalTabBuffers

MaxRmWords == 4

RmWords == {"rm", "a", "dir", " ", "\n", "", " -", ";", "/", "\\", "sudo "}

RmCommands == Texts(RmWords, MaxRmWords)

MaxFindWords == 3

FindWords ==
    {"find . ", "FIND . ", "find", " ", "\n", "; ", "-delete", "-exec ls ", "-exec rm ",
     "-execdir rmdir ", "| xargs rm", "-EXEC sudo mv a ", "-ok rm "}

(* Find commands with a vertical tab as white space *)
VerticalTabFindCommands ==
    {(f \o "") \o (". " \o i) :
        f \in {"find", "ls;find", "xfind"},
        i \in {"-delete", "-okrm", "|xargssudorm", "-execls "}}

FindCommands == Texts(FindWords, MaxFindWords) \cup VerticalTabFindCommands

MaxSpaces == 1

Spaces == Texts({" ", ""}, MaxSpaces)

(* A command put together from the parts the rm pattern names, in the      *)
(* pattern's order                                                         *)
RmParts ==
    [lead    : {"", "ls "},
     sepchar : {"", ";", "&", "|", "(", ")"},
     sepws   : Spaces,
     sudo    : {""} \cup {"sudo" \o w : w \in Spaces},
     command : {""} \cup {"command" \o w : w \in Spaces},
     bs      : {"", "\\"},
     path    : {"", "/", "/usr/bin/", "a b/"},
     tail    : {"", " -rf /", "\n", "dir"}]

ComposeRm(parts) ==
    (((parts.lead \o parts.sepchar) \o (parts.sepws \o parts.sudo))
        \o ((parts.command \o parts.bs) \o (parts.path \o "rm"))) \o parts.tail

MaxChainWords == 3

ChainWords == {"rm", "a", " ", "\n", "sudo ", ";", "/", "\\"}

(* A command c put after a prefix text p, a chaining operator s and        *)
(* optional whitespace ws                                                  *)
ChainParts ==
    [p  : {"", "ls ", "echo \"", "ls\n"},
     s  : {";", "&&", "||", "|", "&", "("},
     ws : {"", " ", "\n"},
     c  : Texts(ChainWords, MaxChainWords)]

ComposeChain(parts) == (parts.p \o parts.s) \o (parts.ws \o parts.c)

MaxPlacedWords == 2

PlacedWords == {"rm", " -rf x", "sudo ", "find . ", "-delete", "-exec rm x ", "ls"}

(* A command c as it stands, behind leading blanks, on a new line after    *)
(* the command p, or after p and a semicolon; fn is the classifier the     *)
(* caller applies                                                          *)
Placements == {"alone", "spaces", "tab", "newline", "semicolon"}

PlacedParts ==
    [fn : {"is_rm_command", "check_destructive_find"},
     p : {"ls", "echo a"}, placement : Placements, c : Texts(PlacedWords, MaxPlacedWords)]

ComposePlaced(parts) ==
    CASE parts.placement = "alone"     -> parts.c
      [] parts.placement = "spaces"    -> "  " \o parts.c
      [] parts.placement = "tab"       -> "\t" \o parts.c
      [] parts.placement = "newline"   -> (parts.p \o "\n") \o parts.c
      [] parts.placement = "semicolon" -> (parts.p \o ";") \o parts.c

MaxScanWords == 4

ScanWords == {"/", "/*", "*/", "\"", "\\", "r", "#", "\n", "x"}

ScanBuffers == Texts(ScanWords, MaxScanWords)

MaxWalkWords == 4

WalkWords == {"\"", "\\", "r", "#", "x", "/*"}

WalkBuffers == Texts(WalkWords, MaxWalkWords)

MaxCommentWords == 2

(* Pieces of the text of a line comment: none holds a newline *)
CommentWords == {"x", " ", "/*", "*/", "//", "\"", "\\", "r#\"", "#[allow(y)]"}

(* A line comment followed by an attribute at the start of the next line *)
AfterComment(t, m) == (("// " \o t) \o "\n#[") \o (m \o "(x)]")

AfterCommentBuffers ==
    {AfterComment(t, m) : t \in Texts(CommentWords, MaxCommentWords),
                          m \in {RUST_ALLOW_PATTERN, RUST_EXPECT_PATTERN}}

(* Texts with characters outside ASCII: white space of two and three       *)
(* bytes (U+00A0, U+2003, U+3000), the characters U+00E9 and U+00A1, which *)
(* are no white space, and the case variants U+017F of `s` and U+212A of   *)
(* `k`.                                                                    *)
WideSpaces == {"Â ", "â", "ã"}

WideRmParts ==
    [lead    : {"", "Ã©"},
     sepchar : {"", ";", "("},
     sepws   : {"", "Â ", "ã"},
     sudo    : {"", "sudoÂ ", "sudoâ "},
     command : {"", "commandã"},
     bs      : {"", "\\"},
     path    : {"", "/Ã©/", "aÂ b/"},
     tail    : {"", "â-rf /", "Â¡"}]

WideRmCommands ==
    {(a \o b) \o ("rm" \o c) :
        a \in {"", "ls", ";", "/", "\\", "x/"},
        b \in {"", "Â ", "ã", "Ã©", "Â¡", "sudoâ", "Â /", "Ã©/"},
        c \in {"", "Â ", "â", "Ã©", "Â¡", ";"}}

WideChainParts ==
    [p  : {"", "lsÂ ", "Ã©"},
     s  : {";", "&&", "||", "|", "&", "("},
     ws : {""} \cup WideSpaces,
     c  : {"rm", "rmÂ a", "sudoãrm", "/Ã©/rmâ", "Ã©/rm", "Â rm",
           "rmÃ©"}]

WideFindCommands ==
    {(f \o w) \o (". " \o i) :
        f \in {"find", "FIND", "ls; find", "ls;Â  find", "xfind", "Ã©find"},
        w \in WideSpaces \cup {"Â¡"},
        i \in {"-delete", "-oâª rm ", "-OâªÂ sudoârmdirã", "-oâª ls ",
               "| xargÅ¿ rm", "|Â Å¿udo xargsâÅ¿UDOÂ rm",
               "| xargÅ¿ ls", "-execãrmÂ ", "-execâmv", "-execÂ¡rm ",
               "\n-delete", "Ã©-DELETE"}}

WideBuffers ==
    {(b \o m) \o (w \o e) :
        b \in {"", "// ", "\"", "Ã©", "/* */Â "},
        m \in {"#[allow", "#![expect", "#[expect "},
        w \in WideSpaces \cup {"Â¡", "Ã©"},
        e \in {"(x)]", "[x]"}}

----------------------------------------------------------------------------
(* The state machine: one invocation of the program.  The command line    *)
(* (flags) and the decoded standard input (data) are given at the start;   *)
(* the handler of the subcommand runs to its return.                       *)

NoFlags ==
    [subcommand |-> "", block_rm |-> FALSE, confirm_destructive_find |-> FALSE,
     deny_rust_allow |-> FALSE, expect |-> FALSE, additional_context |-> None]

PermissionRequestFlags ==
    {[NoFlags EXCEPT !.subcommand = "permission-request",
                     !.block_rm = block_rm,
                     !.confirm_destructive_find = confirm_destructive_find] :
        block_rm \in BOOLEAN, confirm_destructive_find \in BOOLEAN}

PreToolUseFlags ==
    {[NoFlags EXCEPT !.subcommand = "pre-tool-use",
                     !.deny_rust_allow = deny_rust_allow_enabled,
                     !.expect = expect_flag,
                     !.additional_context = additional_context] :
        deny_rust_allow_enabled \in BOOLEAN, expect_flag \in BOOLEAN,
        additional_context \in Contexts}

Init ==
    /\ pc = "start"
    /\ \/ flags \in PermissionRequestFlags /\ data \in PermissionRequestInputs
       \/ flags \in PreToolUseFlags /\ data \in PreToolUseInputs
    /\ out = << >>
    /\ arg = ""
    /\ ret = ""

permission_request_action ==
    /\ pc = "start"
    /\ flags.subcommand = "permission-request"
    /\ out' = permission_request(flags.block_rm, flags.confirm_destructive_find, data)
    /\ pc' = "returned"
    /\ UNCHANGED <<flags, data, arg, ret>>

pre_tool_use_action ==
    /\ pc = "start"
    /\ flags.subcommand = "pre-tool-use"
    /\ out' = pre_tool_use(flags.deny_rust_allow, flags.expect,
                           flags.additional_context, data)
    /\ pc' = "returned"
    /\ UNCHANGED <<flags, data, arg, ret>>

Next == permission_request_action \/ pre_tool_use_action

Spec == Init /\ [][Next]_vars

(* The attribute detector applied to one source buffer *)
InitDetector ==
    /\ pc = "start"
    /\ flags = NoFlags
    /\ data = None
    /\ out = << >>
    /\ arg \in Buffers
    /\ ret = ""

check_rust_allow_attributes_call ==
    /\ pc = "start"
    /\ ret' = check_rust_allow_attributes(arg)
    /\ pc' = "checked"
    /\ UNCHANGED <<flags, data, out, arg>>

NextDetector == check_rust_allow_attributes_call

SpecDetector == InitDetector /\ [][NextDetector]_vars

(* The rm classifier applied to one command *)
InitRm ==
    /\ pc = "start"
    /\ flags = NoFlags
    /\ data = None
    /\ out = << >>
    /\ arg \in RmCommands
    /\ ret = ""

is_rm_command_call ==
    /\ pc = "start"
    /\ ret' = is_rm_command(arg)
    /\ pc' = "classified"
    /\ UNCHANGED <<flags, data, out, arg>>

NextRm == is_rm_command_call

SpecRm == InitRm /\ [][NextRm]_vars

(* The rm classifier applied to a command put together from parts; data    *)
(* keeps the parts.                                                        *)
InitRmParts ==
    /\ pc = "start"
    /\ flags = NoFlags
    /\ data \in RmParts
    /\ out = << >>
    /\ arg = ComposeRm(data)
    /\ ret = ""

SpecRmParts == InitRmParts /\ [][NextRm]_vars

(* The rm classifier applied to a command chained after a prefix; data     *)
(* keeps the parts.                                                        *)
InitChained ==
    /\ pc = "start"
    /\ flags = NoFlags
    /\ data \in ChainParts
    /\ out = << >>
    /\ arg = ComposeChain(data)
    /\ ret = ""

SpecChained == InitChained /\ [][NextRm]_vars

(* Either shell-command classifier applied to a command in one of its     *)
(* placements; data keeps the parts.                                       *)
InitPlaced ==
    /\ pc = "start"
    /\ flags = NoFlags
    /\ data \in PlacedParts
    /\ out = << >>
    /\ arg = ComposePlaced(data)
    /\ ret = ""

is_rm_command_placed ==
    /\ pc = "start"
    /\ data.fn = "is_rm_command"
    /\ ret' = is_rm_command(arg)
    /\ pc' = "rm_classified"
    /\ UNCHANGED <<flags, data, out, arg>>

check_destructive_find_placed ==
    /\ pc = "start"
    /\ data.fn = "check_destructive_find"
    /\ ret' = check_destructive_find(arg)
    /\ pc' = "find_classified"
    /\ UNCHANGED <<flags, data, out, arg>>

NextPlaced == is_rm_command_placed \/ check_destructive_find_placed

SpecPlaced == InitPlaced /\ [][NextPlaced]_vars

(* The destructive-find classifier applied to one command *)
InitFind ==
    /\ pc = "start"
    /\ flags = NoFlags
    /\ data = None
    /\ out = << >>
    /\ arg \in FindCommands
    /\ ret = ""

check_destructive_find_call ==
    /\ pc = "start"
    /\ ret' = check_destructive_find(arg)
    /\ pc' = "classified"
    /\ UNCHANGED <<flags, data, out, arg>>

NextFind == check_destructive_find_call

SpecFind == InitFind /\ [][NextFind]_vars

(* The scanner applied to one buffer and offset; arg is the pair of the    *)
(* call's arguments.                                                       *)
InitScanner ==
    /\ pc = "start"
    /\ flags = NoFlags
    /\ data = None
    /\ out = << >>
    /\ \E content \in ScanBuffers : \E match_start \in 0..Len(content) :
           arg = <<content, match_start>>
    /\ ret = ""

is_in_comment_or_string_call ==
    /\ pc = "start"
    /\ ret' = is_in_comment_or_string(arg[1], arg[2])
    /\ pc' = "scanned"
    /\ UNCHANGED <<flags, data, out, arg>>

NextScanner == is_in_comment_or_string_call

SpecScanner == InitScanner /\ [][NextScanner]_vars

(* The two front ends run on the same standard input: claude_hooks first,  *)
(* then agent_hooks/claude with every check enabled and the same --expect  *)
(* and --additional-context.  Each decodes the input itself, with its own  *)
(* HookInput.  data holds the input: None for text that is no event, else  *)
(* the tool_name as written and the tool_input.  A tool_name is written    *)
(* as nothing (absent or null), as a JSON string, or in the tagged form    *)
(* {"<name>": null}.  out holds what claude_hooks printed, ret what        *)
(* agent_hooks/claude printed.                                             *)
UnitToolNames ==
    {"Task", "Bash", "Glob", "Grep", "Read", "Edit", "Write", "WebFetch", "WebSearch"}

StdinToolNames ==
    {[form |-> "absent", name |-> ""]}
    \cup {[form |-> "string", name |-> t[1]] : t \in ToolNames \ {None}}
    \cup {[form |-> "tagged", name |-> n] : n \in {"Bash", "Edit", "Write", "Read", "Other"}}

Stdin(tool_name, tool_input) ==
    Some([tool_name |-> tool_name, tool_input |-> tool_input])

PermissionRequestStdins ==
    {None} \cup {Stdin(t, i) : t \in {n \in StdinToolNames : n.name = "Bash"},
                              i \in BashToolInputs}
           \cup {Stdin(t, i) : t \in {n \in StdinToolNames : n.name # "Bash"},
                              i \in OtherToolInputs}

PreToolUseStdins ==
    {None} \cup {Stdin(t, i) : t \in {n \in StdinToolNames : n.name \in {"Edit", "Write"}},
                              i \in EditToolInputs}
           \cup {Stdin(t, i) : t \in {n \in StdinToolNames : n.name \notin {"Edit", "Write"}},
                              i \in OtherToolInputs}

(* tool_name: Option<String>: a string or nothing; the tagged form is an   *)
(* object, which is no string, and the decoding fails                      *)
claude_hooks_read_hook_input(stdin) ==
    IF stdin = None THEN None
    ELSE IF stdin[1].tool_name.form = "absent" THEN HookInput(None, stdin[1].tool_input)
    ELSE IF stdin[1].tool_name.form = "string"
         THEN HookInput(Some(stdin[1].tool_name.name), stdin[1].tool_input)
    ELSE None

(* tool_name: Option<ToolName>: a string names a unit variant or is        *)
(* Unknown(string); the tagged form names a unit variant or fails          *)
agent_hooks_read_hook_input(stdin) ==
    IF stdin = None THEN None
    ELSE IF stdin[1].tool_name.form = "absent" THEN HookInput(None, stdin[1].tool_input)
    ELSE IF stdin[1].tool_name.form = "string"
         THEN HookInput(Some(stdin[1].tool_name.name), stdin[1].tool_input)
    ELSE IF stdin[1].tool_name.name \in UnitToolNames
         THEN HookInput(Some(stdin[1].tool_name.name), stdin[1].tool_input)
    ELSE None

FrontEndFlags ==
    {[NoFlags EXCEPT !.subcommand = "permission-request",
                     !.block_rm = TRUE, !.confirm_destructive_find = TRUE]}
    \cup {[NoFlags EXCEPT !.subcommand = "deny-rust-allow",
                          !.deny_rust_allow = TRUE,
                          !.expect = expect_flag,
                          !.additional_context = additional_context] :
             expect_flag \in BOOLEAN, additional_context \in Contexts}

InitFrontEnds ==
    /\ pc = "start"
    /\ flags \in FrontEndFlags
    /\ data \in (IF flags.subcommand = "permission-request"
                 THEN PermissionRequestStdins ELSE PreToolUseStdins)
    /\ out = << >>
    /\ arg = ""
    /\ ret = << >>

claude_hooks_permission_request_action ==
    /\ pc = "start"
    /\ flags.subcommand = "permission-request"
    /\ out' = claude_hooks_permission_request(claude_hooks_read_hook_input(data))
    /\ pc' = "claude_hooks_returned"
    /\ UNCHANGED <<flags, data, arg, ret>>

deny_rust_allow_action ==
    /\ pc = "start"
    /\ flags.subcommand = "deny-rust-allow"
    /\ out' = claude_hooks_deny_rust_allow(flags.expect, flags.additional_context,
                                          claude_hooks_read_hook_input(data))
    /\ pc' = "claude_hooks_returned"
    /\ UNCHANGED <<flags, data, arg, ret>>

agent_hooks_permission_request_action ==
    /\ pc = "claude_hooks_returned"
    /\ flags.subcommand = "permission-request"
    /\ ret' = permission_request(flags.block_rm, flags.confirm_destructive_find,
                                agent_hooks_read_hook_input(data))
    /\ pc' = "agent_hooks_returned"
    /\ UNCHANGED <<flags, data, out, arg>>

agent_hooks_pre_tool_use_action ==
    /\ pc = "claude_hooks_returned"
    /\ flags.subcommand = "deny-rust-allow"
    /\ ret' = pre_tool_use(flags.deny_rust_allow, flags.expect,
                           flags.additional_context, agent_hooks_read_hook_input(data))
    /\ pc' = "agent_hooks_returned"
    /\ UNCHANGED <<flags, data, out, arg>>

NextFrontEnds ==
    \/ claude_hooks_permission_request_action
    \/ deny_rust_allow_action
    \/ agent_hooks_permission_request_action
    \/ agent_hooks_pre_tool_use_action

SpecFrontEnds == InitFrontEnds /\ [][NextFrontEnds]_vars

(* The scanner run step by step on one buffer and offset: the two comment *)
(* checks, then the outer loop of the string walk one iteration at a time. *)
(* data holds the locals i and in_raw_string during the walk; an indexing  *)
(* outside the prefix panics.  The code runs to its end, so the next step  *)
(* is always taken.  ret is None until the function returns.               *)
InitWalk ==
    /\ pc = "start"
    /\ flags = NoFlags
    /\ data = None
    /\ out = << >>
    /\ \E content \in WalkBuffers : \E match_start \in 0..Len(content) :
           arg = <<content, match_start>>
    /\ ret = None

scan_enter ==
    /\ pc = "start"
    /\ LET before       == Slice(arg[1], 0, arg[2])
           last_nl      == rfind_newline(before)
           line_start   == IF last_nl = None THEN 0 ELSE last_nl[1] + 1
           current_line == Slice(before, line_start, Len(before))
           block_open   == matches_count(before, "/*")
           block_close  == matches_count(before, "*/")
       IN  IF contains(current_line, "//") \/ block_open > block_close
           THEN pc' = "scanned" /\ ret' = Some(TRUE) /\ data' = data
           ELSE /\ pc' = "walk"
                /\ data' = Some([i |-> 0, in_raw_string |-> FALSE])
                /\ ret' = ret
    /\ UNCHANGED <<flags, out, arg>>

walk_iteration ==
    /\ pc = "walk"
    /\ data[1].i < arg[2]
    /\ LET bytes == Slice(arg[1], 0, arg[2])
           reads == WalkReads(bytes, data[1].i, data[1].in_raw_string)
           step  == WalkStep(bytes, data[1].i, data[1].in_raw_string)
       IN  IF \E x \in reads : x < 0 \/ x >= Len(bytes)
           THEN pc' = "panicked" /\ data' = data /\ ret' = ret
           ELSE IF step.returned
           THEN pc' = "scanned" /\ ret' = Some(TRUE) /\ data' = data
           ELSE /\ pc' = "walk"
                /\ data' = Some([i |-> step.i, in_raw_string |-> step.in_raw_string])
                /\ ret' = ret
    /\ UNCHANGED <<flags, out, arg>>

walk_exit ==
    /\ pc = "walk"
    /\ ~(data[1].i < arg[2])
    /\ ret' = Some(data[1].in_raw_string)
    /\ pc' = "scanned"
    /\ UNCHANGED <<flags, data, out, arg>>

NextWalk == scan_enter \/ walk_iteration \/ walk_exit

SpecWalk == InitWalk /\ [][NextWalk]_vars /\ WF_vars(NextWalk)

(* The attribute detector applied to a buffer whose first line is a line   *)
(* comment and whose second line is an attribute                           *)
InitAfterComment ==
    /\ pc = "start"
    /\ flags = NoFlags
    /\ data = None
    /\ out = << >>
    /\ arg \in AfterCommentBuffers
    /\ ret = ""

SpecAfterComment == InitAfterComment /\ [][NextDetector]_vars

----------------------------------------------------------------------------
(* Vocabulary of the properties: white space.  A white space starts at p;  *)
(* a white space ends at p; s[p..q] is a run of white space.               *)
SpaceStartsAt(s, p) == SpaceLen(s, p) # {}

SpaceEndsAt(s, p) == \E n \in 1..3 : p - n >= 0 /\ n \in SpaceLen(s, p - n)

RECURSIVE AllSpace(_, _, _)
AllSpace(s, p, q) ==
    p = q \/ \E n \in SpaceLen(s, p) : p + n <= q /\ AllSpace(s, p + n, q)

(* Vocabulary of the properties: the verdict of a finished invocation *)

ShellFlow == pc = "returned" /\ flags.subcommand = "permission-request"

AttributeFlow == pc = "returned" /\ flags.subcommand = "pre-tool-use"

NoOpinion == out = << >>

IsDeny(o) ==
    \/ o.decision # None /\ o.decision[1].behavior = "deny"
    \/ o.permission_decision = Some("deny")

IsAsk(o) == o.permission_decision = Some("ask")

DenyEmitted == \E n \in 1..Len(out) : IsDeny(out[n])

AskEmitted == \E n \in 1..Len(out) : IsAsk(out[n])

(* The command of a Bash event, "" when the event is not a Bash event or   *)
(* carries no command.                                                     *)
BashCommand ==
    IF data # None /\ data[1].tool_name = Some("Bash") /\ data[1].tool_input # None
    THEN IF data[1].tool_input[1].command = None THEN ""
         ELSE data[1].tool_input[1].command[1]
    ELSE ""

EventTool == IF data # None /\ data[1].tool_name # None THEN data[1].tool_name[1] ELSE ""

EventHasField(f) ==
    data # None /\ data[1].tool_input # None /\ data[1].tool_input[1][f] # None

EventField(f) == IF EventHasField(f) THEN data[1].tool_input[1][f][1] ELSE ""

(* The text the attribute flow scans: new_string when present, else content *)
SelectedContent ==
    IF EventHasField("new_string") THEN EventField("new_string") ELSE EventField("content")

HasRsExtension(path) ==
    extension(path) # None /\ to_ascii_lowercase(At(extension(path)[1], 0)) = "r"
        /\ to_ascii_lowercase(At(extension(path)[1], 1)) = "s" /\ Len(extension(path)[1]) = 2

PassesAttributeGate ==
    /\ EventTool \in {"Edit", "Write"}
    /\ EventHasField("file_path") /\ HasRsExtension(EventField("file_path"))
    /\ SelectedContent # ""

Finding == check_rust_allow_attributes(SelectedContent)

StartsWith(s, prefix) == StartsAt(s, prefix, 0)

ClaimedRmMessage ==
    "rm is forbidden. Use trash command to delete files. Example: trash <path...>"

ClaimedAllowText == "Adding #[allow(...)] or #![allow(...)] attributes is not permitted."

ClaimedExpectText == "Adding #[expect(...)] or #![expect(...)] attributes is not permitted."

ClaimedBothText == "Adding #[allow(...)] or #[expect(...)] attributes is not permitted."

ClaimedFixText == "Fix the underlying issue instead of suppressing the warning."

ClaimedUseExpectText ==
    "Use #[expect(...)] instead, which will warn when the lint is no longer triggered."

(* The base denial message of a mode for a finding that the mode denies *)
ClaimedBase(expect_flag, finding) ==
    IF expect_flag THEN ClaimedAllowText \o " " \o ClaimedUseExpectText
    ELSE CASE finding = "HasAllow"  -> ClaimedAllowText \o " " \o ClaimedFixText
           [] finding = "HasExpect" -> ClaimedExpectText \o " " \o ClaimedFixText
           [] finding = "HasBoth"   -> ClaimedBothText \o " " \o ClaimedFixText

AttributeDenyWith(P(_)) ==
    /\ Len(out) = 1
    /\ out[1].permission_decision = Some("deny")
    /\ out[1].permission_decision_reason # None
    /\ P(out[1].permission_decision_reason[1])

----------------------------------------------------------------------------
(* C1: in the shell-command flow, a Bash event with a non-empty command    *)
(* that is_rm_command accepts is denied with the fixed rm message whenever *)
(* the delete check is enabled, also when the destructive-find check is    *)
(* enabled and would match; no Ask is produced for such a command.         *)
C1_RmDenyHasPriority ==
    (ShellFlow /\ BashCommand # "" /\ flags.block_rm /\ is_rm_command(BashCommand))
        => /\ Len(out) = 1
           /\ out[1].decision # None
           /\ out[1].decision[1].behavior = "deny"
           /\ out[1].decision[1].message = ClaimedRmMessage
           /\ ~AskEmitted

C1_Witness ==
    /\ ShellFlow /\ flags.block_rm /\ flags.confirm_destructive_find
    /\ BashCommand # "" /\ is_rm_command(BashCommand)
    /\ check_destructive_find(BashCommand) # None
    /\ DenyEmitted

(* C2: in the shell-command flow, when the destructive-find check is       *)
(* enabled, no Deny was produced (delete check disabled or is_rm_command   *)
(* false) and check_destructive_find gives Some(d), the verdict is Ask     *)
(* with the reason "Destructive find command detected: d. This operation   *)
(* may delete or modify files. Please confirm."                            *)
C2_FindAskReason ==
    (/\ ShellFlow /\ BashCommand # "" /\ flags.confirm_destructive_find
     /\ ~(flags.block_rm /\ is_rm_command(BashCommand))
     /\ check_destructive_find(BashCommand) # None)
        => /\ Len(out) = 1
           /\ IsAsk(out[1])
           /\ out[1].decision = None
           /\ out[1].permission_decision_reason =
                 Some("Destructive find command detected: "
                      \o check_destructive_find(BashCommand)[1]
                      \o ". This operation may delete or modify files. Please confirm.")

C2_Witness ==
    /\ ShellFlow /\ flags.block_rm /\ flags.confirm_destructive_find
    /\ ~is_rm_command(BashCommand)
    /\ check_destructive_find(BashCommand) = Some("find with -exec rm/rmdir")
    /\ AskEmitted

(* C3: in the shell-command flow nothing is emitted when no enabled check  *)
(* fires; with the delete check disabled no Deny is emitted, with the      *)
(* destructive-find check disabled no Ask is emitted, and with both        *)
(* disabled every input yields NoOpinion.                                  *)
C3_DisabledChecksAreSilent ==
    ShellFlow =>
        /\ (~flags.block_rm => ~DenyEmitted)
        /\ (~flags.confirm_destructive_find => ~AskEmitted)
        /\ (~flags.block_rm /\ ~flags.confirm_destructive_find => NoOpinion)
        /\ (/\ ~(flags.block_rm /\ is_rm_command(BashCommand))
            /\ ~(flags.confirm_destructive_find
                   /\ check_destructive_find(BashCommand) # None)
            => NoOpinion)

C3_Witness ==
    /\ ShellFlow /\ ~flags.block_rm /\ flags.confirm_destructive_find
    /\ is_rm_command(BashCommand)
    /\ check_destructive_find(BashCommand) = None
    /\ NoOpinion

(* C4: fail-open on unusable input: when the payload cannot be decoded,    *)
(* the tool name or the tool input is missing, the command is missing or   *)
(* empty (shell flow) or the file path is missing (attribute flow), the    *)
(* handler returns and emits nothing.                                      *)
UnusableInput ==
    \/ data = None
    \/ data[1].tool_name = None
    \/ data[1].tool_input = None
    \/ flags.subcommand = "permission-request"
          /\ (data[1].tool_input[1].command = None \/ data[1].tool_input[1].command = Some(""))
    \/ flags.subcommand = "pre-tool-use" /\ data[1].tool_input[1].file_path = None

C4_FailOpen ==
    (pc # "start" /\ flags.subcommand \in {"permission-request", "pre-tool-use"}
        /\ UnusableInput)
        => pc = "returned" /\ NoOpinion

C4_Witness ==
    /\ AttributeFlow /\ flags.deny_rust_allow /\ ~flags.expect
    /\ EventTool = "Edit"
    /\ data[1].tool_input # None
    /\ data[1].tool_input[1].file_path = None
    /\ Finding = "HasAllow"
    /\ NoOpinion

(* C5: the attribute flow gives NoOpinion unless the tool is Edit or       *)
(* Write, the extension of the file path is "rs" ignoring ASCII case and   *)
(* the selected new content is non-empty, whatever markers the content     *)
(* holds and whatever the mode.                                            *)
C5_AttributeGate == (AttributeFlow /\ ~PassesAttributeGate) => NoOpinion

C5_Witness ==
    /\ AttributeFlow /\ flags.deny_rust_allow
    /\ EventTool = "Edit"
    /\ EventField("file_path") = "README.md"
    /\ Finding = "HasBoth"
    /\ NoOpinion

(* C6: strict mode (the check enabled, the expect flag off): an event that *)
(* passes the gate is denied iff the finding is not Ok, and the reason     *)
(* begins with the message of the finding: the allow message, the expect   *)
(* message or the combined one, each ending with the advice to fix the     *)
(* underlying issue.                                                       *)
C6_StrictFirst(reason) == StartsWith(reason, ClaimedBase(FALSE, Finding))

C6_StrictMode ==
    (AttributeFlow /\ flags.deny_rust_allow /\ ~flags.expect /\ PassesAttributeGate)
        => IF Finding = "Ok" THEN NoOpinion ELSE AttributeDenyWith(C6_StrictFirst)

C6_Witness ==
    /\ AttributeFlow /\ flags.deny_rust_allow /\ ~flags.expect /\ PassesAttributeGate
    /\ Finding = "HasExpect"
    /\ DenyEmitted

(* C7: lenient mode (the check enabled, the expect flag on): an event that *)
(* passes the gate is denied iff the finding is HasAllow or HasBoth, with  *)
(* the message that suggests #[expect(...)]; HasExpect and Ok give         *)
(* NoOpinion.                                                              *)
C7_LenientFirst(reason) == StartsWith(reason, ClaimedBase(TRUE, Finding))

C7_LenientMode ==
    (AttributeFlow /\ flags.deny_rust_allow /\ flags.expect /\ PassesAttributeGate)
        => IF Finding \in {"HasAllow", "HasBoth"} THEN AttributeDenyWith(C7_LenientFirst)
           ELSE NoOpinion

C7_Witness ==
    /\ AttributeFlow /\ flags.deny_rust_allow /\ flags.expect /\ PassesAttributeGate
    /\ Finding = "HasBoth"
    /\ DenyEmitted

(* C8: whenever the attribute flow denies, the reason is the base message  *)
(* of the mode followed by one space and the additional context when one   *)
(* is configured, and the base message alone otherwise; the additional     *)
(* context never changes whether the verdict is Deny or NoOpinion.         *)
C8_Expected(reason) ==
    reason = IF flags.additional_context = None
             THEN ClaimedBase(flags.expect, Finding)
             ELSE ClaimedBase(flags.expect, Finding) \o " " \o flags.additional_context[1]

C8_AdditionalContext ==
    AttributeFlow =>
        /\ (DenyEmitted => AttributeDenyWith(C8_Expected))
        /\ \A c \in Contexts :
              (pre_tool_use(flags.deny_rust_allow, flags.expect, c, data) = << >>)
                  <=> NoOpinion

C8_Witness ==
    /\ AttributeFlow /\ flags.expect
    /\ flags.additional_context = Some("See CONTRIBUTING.md")
    /\ Finding = "HasAllow"
    /\ DenyEmitted

----------------------------------------------------------------------------
(* Reference lexer: what a Rust lexer makes of a buffer, as far as         *)
(* comments and string literals go.  Lexed(s)[o + 1] describes the byte at *)
(* offset o: id is the offset where the comment or literal holding the     *)
(* byte starts, -1 for a byte of code; kind is the kind of that comment or *)
(* literal; tag marks delimiters: "bo"/"bc" the first byte of a block      *)
(* comment opener/closer, "ro" the r of a raw-string opener, "rq" a quote  *)
(* delimiting a raw string, "so"/"sc" the quote opening/closing an         *)
(* ordinary string, "eq" a backslash-escaped quote inside one.             *)

IdentChars == "abcdefghijklmnopqrstuvwxyzABCDEFGHIJKLMNOPQRSTUVWXYZ0123456789_"

IsIdentChar(c) == c # "" /\ contains(IdentChars, c)

Cell(id, kind, tag) == [id |-> id, kind |-> kind, tag |-> tag]

Cells(id, kind, tag, len) ==
    [x \in 1..len |-> IF x = 1 THEN Cell(id, kind, tag) ELSE Cell(id, kind, "")]

HashRun(s, q, n) == \A x \in 1..n : q + x < Len(s) /\ At(s, q + x) = "#"

RECURSIVE Lex(_, _, _, _, _, _)
Lex(s, i, mode, id, n, acc) ==
    IF i >= Len(s) THEN acc
    ELSE CASE mode = "code" ->
                LET j == SkipHashes(s, i + 1)
                IN  IF StartsAt(s, "//", i)
                    THEN Lex(s, i + 2, "line", i, 0, acc \o Cells(i, "line", "", 2))
                    ELSE IF StartsAt(s, "/*", i)
                    THEN Lex(s, i + 2, "block", i, 1, acc \o Cells(i, "block", "bo", 2))
                    ELSE IF /\ At(s, i) = "r" /\ (i = 0 \/ ~IsIdentChar(At(s, i - 1)))
                            /\ j < Len(s) /\ At(s, j) = "\""
                    THEN Lex(s, j + 1, "raw", i, j - (i + 1),
                             (acc \o Cells(i, "raw", "ro", j - i)) \o <<Cell(i, "raw", "rq")>>)
                    ELSE IF At(s, i) = "\""
                    THEN Lex(s, i + 1, "str", i, 0, acc \o <<Cell(i, "str", "so")>>)
                    ELSE Lex(s, i + 1, "code", -1, 0, acc \o <<Cell(-1, "code", "")>>)
           [] mode = "line" ->
                IF At(s, i) = "\n"
                THEN Lex(s, i + 1, "code", -1, 0, acc \o <<Cell(-1, "code", "")>>)
                ELSE Lex(s, i + 1, "line", id, 0, acc \o <<Cell(id, "line", "")>>)
           [] mode = "block" ->
                IF StartsAt(s, "/*", i)
                THEN Lex(s, i + 2, "block", id, n + 1, acc \o Cells(id, "block", "bo", 2))
                ELSE IF StartsAt(s, "*/", i)
                THEN Lex(s, i + 2, IF n = 1 THEN "code" ELSE "block", id, n - 1,
                         acc \o Cells(id, "block", "bc", 2))
                ELSE Lex(s, i + 1, "block", id, n, acc \o <<Cell(id, "block", "")>>)
           [] mode = "str" ->
                IF At(s, i) = "\\" /\ i + 1 < Len(s)
                THEN Lex(s, i + 2, "str", id, 0,
                         (acc \o <<Cell(id, "str", "")>>)
                             \o <<Cell(id, "str", IF At(s, i + 1) = "\"" THEN "eq" ELSE "")>>)
                ELSE IF At(s, i) = "\""
                THEN Lex(s, i + 1, "code", -1, 0, acc \o <<Cell(id, "str", "sc")>>)
                ELSE Lex(s, i + 1, "str", id, 0, acc \o <<Cell(id, "str", "")>>)
           [] mode = "raw" ->
                IF At(s, i) = "\"" /\ HashRun(s, i, n)
                THEN Lex(s, i + 1 + n, "code", -1, 0, acc \o Cells(id, "raw", "rq", 1 + n))
                ELSE Lex(s, i + 1, "raw", id, n, acc \o <<Cell(id, "raw", "")>>)

Lexed(s) == Lex(s, 0, "code", -1, 0, << >>)

MatchEnd(content, pattern, m) == CHOOSE e \in AttributeRegex(content, pattern, m) : TRUE

(* The match of the pattern at m lies entirely inside one comment or       *)
(* literal of the lexed buffer                                             *)
EntirelyInside(content, lexed, pattern, m) ==
    /\ lexed[m + 1].id # -1
    /\ \A o \in m..(MatchEnd(content, pattern, m) - 1) : lexed[o + 1].id = lexed[m + 1].id

Reported(result, pattern) ==
    IF pattern = "allow" THEN result \in {"HasAllow", "HasBoth"}
    ELSE result \in {"HasExpect", "HasBoth"}

(* Every `/*` and `*/` before m is a block-comment delimiter *)
CommentMarkersAreDelimiters(content, lexed, m) ==
    \A o \in 0..(m - 2) :
        /\ StartsAt(content, "/*", o) => lexed[o + 1].tag = "bo"
        /\ StartsAt(content, "*/", o) => lexed[o + 1].tag = "bc"

(* Every quote before m delimits a string or raw-string literal or is a    *)
(* backslash-escaped quote of an ordinary string; no quote delimiting an   *)
(* ordinary string directly follows a backslash; every r #* " sequence in  *)
(* code opens a raw string.                                                *)
QuotesAreDelimiters(content, lexed, m) ==
    \A o \in 0..(m - 1) :
        /\ At(content, o) = "\"" =>
              /\ lexed[o + 1].tag \in {"so", "sc", "rq", "eq"}
              /\ (lexed[o + 1].tag \in {"so", "sc"} /\ o > 0) => At(content, o - 1) # "\\"
        /\ (/\ At(content, o) = "r"
            /\ SkipHashes(content, o + 1) < m
            /\ At(content, SkipHashes(content, o + 1)) = "\"")
              => lexed[o + 1].id # -1

Shielded(content, lexed, pattern, m) ==
    /\ EntirelyInside(content, lexed, pattern, m)
    /\ \/ lexed[m + 1].kind = "line"
       \/ lexed[m + 1].kind = "block" /\ CommentMarkersAreDelimiters(content, lexed, m)
       \/ lexed[m + 1].kind \in {"str", "raw"} /\ QuotesAreDelimiters(content, lexed, m)

Markers == {RUST_ALLOW_PATTERN, RUST_EXPECT_PATTERN}

(* C9 as stated: when every textual match of a marker lies entirely inside *)
(* a line comment, a block comment, an ordinary string literal or a raw    *)
(* string literal, the marker is reported as absent.                       *)
C9_AsStated ==
    pc = "checked" =>
        LET lexed == Lexed(arg)
        IN  \A pattern \in Markers :
                (\A m \in find_iter(arg, pattern) : EntirelyInside(arg, lexed, pattern, m))
                    => ~Reported(ret, pattern)

(* C9: a match inside a line comment never contributes to the finding; a   *)
(* match inside a block comment does not when every `/*` and `*/` before   *)
(* it is a block-comment delimiter; a match inside an ordinary or raw      *)
(* string literal does not when every quote before it delimits a string or *)
(* raw-string literal or is a backslash-escaped quote of an ordinary       *)
(* string, no quote delimiting an ordinary string directly follows a       *)
(* backslash and every r #* " sequence in code opens a raw string.  When   *)
(* every match of a marker is such a match, the marker is reported absent. *)
C9_ShieldedMatchesIgnored ==
    pc = "checked" =>
        LET lexed == Lexed(arg)
        IN  \A pattern \in Markers :
                LET starts == find_iter(arg, pattern)
                IN  /\ \A m \in starts :
                          Shielded(arg, lexed, pattern, m) => is_in_comment_or_string(arg, m)
                    /\ (\A m \in starts : Shielded(arg, lexed, pattern, m))
                          => ~Reported(ret, pattern)

C9_Witness ==
    /\ pc = "checked"
    /\ \E m \in find_iter(arg, RUST_ALLOW_PATTERN) :
          /\ Shielded(arg, Lexed(arg), RUST_ALLOW_PATTERN, m)
          /\ Lexed(arg)[m + 1].kind = "str"
          /\ \E o \in 0..(m - 1) : Lexed(arg)[o + 1].tag = "eq"
    /\ ret = "Ok"

(* C10: the two markers are classified independently: a marker is present  *)
(* iff some textual match of `#[marker(` or `#![marker(`, with optional    *)
(* whitespace before the parenthesis, starts at an offset the scanner does *)
(* not exclude; the result is HasBoth, HasAllow, HasExpect or Ok for the   *)
(* four combinations, and a buffer without a textual match gives Ok.       *)
(* The property is stated of the buffers of a state and of the wide        *)
(* buffers.                                                                *)
TextualMatch(content, marker, p) ==
    \E opener \in {"#[", "#!["} :
        /\ StartsAt(content, opener \o marker, p)
        /\ \E q \in (p + Len(opener) + Len(marker))..(Len(content) - 1) :
              /\ At(content, q) = "("
              /\ AllSpace(content, p + Len(opener) + Len(marker), q)

Present(content, marker) ==
    \E p \in 0..Len(content) :
        TextualMatch(content, marker, p) /\ ~is_in_comment_or_string(content, p)

IndependentMarkers(content, result) ==
    LET has_allow  == Present(content, "allow")
        has_expect == Present(content, "expect")
    IN  /\ result = "HasBoth"   <=> (has_allow /\ has_expect)
        /\ result = "HasAllow"  <=> (has_allow /\ ~has_expect)
        /\ result = "HasExpect" <=> (~has_allow /\ has_expect)
        /\ result = "Ok"        <=> (~has_allow /\ ~has_expect)
        /\ (\A p \in 0..Len(content) : \A marker \in {"allow", "expect"} :
                ~TextualMatch(content, marker, p)) => result = "Ok"

C10_WideTexts ==
    \A b \in WideBuffers : IndependentMarkers(b, check_rust_allow_attributes(b))

C10_IndependentMarkers ==
    /\ pc = "checked" => IndependentMarkers(arg, ret)
    /\ C10_WideTexts

C10_Witness ==
    /\ pc = "checked"
    /\ ret = "HasExpect"
    /\ \E p \in 0..Len(arg) :
          TextualMatch(arg, "allow", p) /\ is_in_comment_or_string(arg, p)
    /\ "#![expectã(x)]" \in WideBuffers /\ TextualMatch("#![expectã(x)]", "expect", 0)

----------------------------------------------------------------------------
(* Buffers of the form "// " t "\n#[" m "(x)]": the comment text t and the *)
(* marker m of the attribute on the second line                            *)

CommentText(buffer) == Slice(buffer, 3, rfind_newline(buffer)[1])

AttributeMarker(buffer) ==
    IF StartsAt(buffer, "#[allow(x)]", rfind_newline(buffer)[1] + 1)
    THEN RUST_ALLOW_PATTERN ELSE RUST_EXPECT_PATTERN

(* C11 as stated: for every comment text t without a newline and either    *)
(* marker m, the detector reports m as present in "// " t "\n#[" m "(x)]". *)
C11_AsStated == pc = "checked" => Reported(ret, AttributeMarker(arg))

(* C11: an attribute that starts the line after a line comment is reported *)
(* as present for every comment text t that holds no newline, no double    *)
(* quote and at most as many `/*` as `*/`.                                 *)
C11_AfterLineComment ==
    (/\ pc = "checked"
     /\ ~contains(CommentText(arg), "\"")
     /\ matches_count(CommentText(arg), "/*") <= matches_count(CommentText(arg), "*/"))
        => Reported(ret, AttributeMarker(arg))

C11_Witness ==
    /\ pc = "checked"
    /\ CommentText(arg) = "#[allow(y)]//"
    /\ AttributeMarker(arg) = RUST_EXPECT_PATTERN
    /\ ret = "HasExpect"

----------------------------------------------------------------------------
(* `rm` as a delimited token at offset p: on its left the start of the     *)
(* text, whitespace, a separator, a backslash or a `/`; on its right       *)
(* whitespace or the end of the text.                                      *)

Separators == {";", "&", "|", "(", ")"}

RmToken(s, p) ==
    /\ StartsAt(s, "rm", p)
    /\ (p = 0 \/ SpaceEndsAt(s, p) \/ At(s, p - 1) \in Separators \cup {"\\", "/"})
    /\ (p + 2 = Len(s) \/ SpaceStartsAt(s, p + 2))

HasRmToken(s) == \E p \in 0..Len(s) : RmToken(s, p)

C12_WideTexts == \A c \in WideRmCommands : ~HasRmToken(c) => is_rm_command(c) = FALSE

(* C12: is_rm_command is false for every command that does not contain    *)
(* `rm` as a delimited token.                                              *)
(* The property is stated of the commands of a state and of the wide       *)
(* commands.                                                               *)
C12_NoTokenNoMatch ==
    /\ (pc = "classified" /\ ~HasRmToken(arg)) => ret = FALSE
    /\ C12_WideTexts

C12_Witness ==
    /\ pc = "classified"
    /\ arg = "sudo rmdir"
    /\ ~HasRmToken(arg)
    /\ ret = FALSE
    /\ "sudoârmÂ¡" \in WideRmCommands /\ ~HasRmToken("sudoârmÂ¡")

(* C13: is_rm_command is true whenever the command holds, at the start of  *)
(* the text or directly after one of ; & | ( and optional whitespace, an   *)
(* optional `sudo` with whitespace, an optional `command` with whitespace, *)
(* an optional backslash, an optional path prefix ending in `/`, and then  *)
(* `rm` followed by whitespace or the end of the text; every combination   *)
(* of the optional prefixes, in that order, matches.                       *)
(* The property is stated of the commands of a state and of the wide       *)
(* commands.                                                               *)
ClaimedSeparators == {";", "&", "|", "("}

HasSpace(s) == \E i \in 0..(Len(s) - 1) : SpaceStartsAt(s, i)

ClaimedRmShape(parts) ==
    /\ IF parts.sepchar = "" THEN parts.lead = "" /\ parts.sepws = ""
       ELSE parts.sepchar \in ClaimedSeparators
    /\ parts.sudo # "" => Len(parts.sudo) > Len("sudo")
    /\ parts.command # "" => Len(parts.command) > Len("command")
    /\ ~HasSpace(parts.path)
    /\ parts.tail # "" => SpaceStartsAt(parts.tail, 0)

C13_WideTexts ==
    \A parts \in WideRmParts : ClaimedRmShape(parts) => is_rm_command(ComposeRm(parts)) = TRUE

C13_PrefixedRmMatches ==
    /\ (pc = "classified" /\ data \in RmParts /\ ClaimedRmShape(data)) => ret = TRUE
    /\ C13_WideTexts

C13_Witness ==
    /\ pc = "classified" /\ data \in RmParts /\ ClaimedRmShape(data)
    /\ data.lead = "ls " /\ data.sepchar = "|"
    /\ data.sudo # "" /\ data.command # "" /\ data.bs # "" /\ data.path = "/usr/bin/"
    /\ data.tail = ""
    /\ ret = TRUE
    /\ \E parts \in WideRmParts :
          /\ ClaimedRmShape(parts)
          /\ ComposeRm(parts) = "Ã©;Â sudoÂ commandã\\/Ã©/rmâ-rf /"

(* C14: is_rm_command is false for every command in which each occurrence  *)
(* of `rm` is part of a longer word: directly preceded or directly         *)
(* followed by a character that is neither whitespace nor a backslash, a   *)
(* `/` or a separator.                                                     *)
(* The property is stated of the commands of a state and of the wide       *)
(* commands.                                                               *)
InsideWord(s, p) ==
    \/ p > 0 /\ ~SpaceEndsAt(s, p) /\ At(s, p - 1) \notin Separators \cup {"\\", "/"}
    \/ p + 2 < Len(s) /\ ~SpaceStartsAt(s, p + 2)
                      /\ At(s, p + 2) \notin Separators \cup {"\\", "/"}

C14_WideTexts ==
    \A c \in WideRmCommands :
       (\A p \in 0..Len(c) : StartsAt(c, "rm", p) => InsideWord(c, p))
           => is_rm_command(c) = FALSE

C14_SubstringNoMatch ==
    /\ (/\ pc = "classified"
        /\ \A p \in 0..Len(arg) : StartsAt(arg, "rm", p) => InsideWord(arg, p))
           => ret = FALSE
    /\ C14_WideTexts

C14_Witness ==
    /\ pc = "classified"
    /\ arg = "rma -rm"
    /\ \A p \in 0..Len(arg) : StartsAt(arg, "rm", p) => InsideWord(arg, p)
    /\ ret = FALSE
    /\ "Â rmÃ©" \in WideRmCommands /\ InsideWord("Â rmÃ©", 2) /\ ~InsideWord("Â rmâ", 2)

----------------------------------------------------------------------------
(* `find` followed by whitespace at offset p, where p is the start of the  *)
(* text or comes directly after a separator and optional whitespace        *)
FindInvocation(s, p) ==
    /\ StartsAt(s, "find", p)
    /\ SpaceStartsAt(s, p + 4)
    /\ \/ p = 0
       \/ \E q \in 0..(p - 1) : At(s, q) \in Separators /\ AllSpace(s, q + 1, p)

PassesFindGate(s) == \E p \in 0..Len(s) : FindInvocation(s, p)

(* C15: check_destructive_find returns None for every command without a    *)
(* `find` followed by whitespace at the start of the text or directly      *)
(* after a separator and optional whitespace, whatever destructive         *)
(* sub-pattern the command holds.                                          *)
(* The property is stated of the commands of a state and of the wide       *)
(* commands.                                                               *)
C15_WideTexts ==
    \A c \in WideFindCommands : ~PassesFindGate(c) => check_destructive_find(c) = None

C15_FindGate ==
    /\ (pc = "classified" /\ ~PassesFindGate(arg)) => ret = None
    /\ C15_WideTexts

C15_Witness ==
    /\ pc = "classified"
    /\ ~PassesFindGate(arg)
    /\ DestructiveRegex("delete", arg)
    /\ At(arg, 0) = " "
    /\ ret = None
    /\ \E c \in WideFindCommands : ~PassesFindGate(c) /\ DestructiveRegex("ok", c)
    /\ \E c \in WideFindCommands : PassesFindGate(c) /\ StartsAt(c, "ls;Â  findÂ ", 0)

(* C16: for a command that passes the find gate the result is the          *)
(* description of the first sub-pattern that matches, ignoring case, in    *)
(* the order -delete, -exec rm/rmdir, -execdir rm/rmdir, pipe to xargs     *)
(* rm/rmdir, -exec mv, -ok rm/rmdir, and None when none matches; one       *)
(* description is returned per call.  In particular a command with `find`, *)
(* whitespace and, later on the same line, `-delete` in any case gives     *)
(* "find with -delete option".                                             *)
(* The property is stated of the commands of a state and of the wide       *)
(* commands.                                                               *)
ClaimedOrder == <<"delete", "exec", "execdir", "xargs", "execmv", "ok">>

ClaimedDescriptions ==
    <<"find with -delete option", "find with -exec rm/rmdir", "find with -execdir rm/rmdir",
      "find piped to xargs rm/rmdir", "find with -exec mv", "find with -ok rm/rmdir">>

(* The text with its ASCII letters in lower case; no other character is a  *)
(* case variant of a letter of `find` or `-delete`.                        *)
RECURSIVE LowerText(_)
LowerText(s) ==
    IF s = "" THEN "" ELSE to_ascii_lowercase(At(s, 0)) \o LowerText(Slice(s, 1, Len(s)))

(* `find`, whitespace, then `-delete` on the line where the whitespace ends *)
DeleteIdiom(s) ==
    LET low == LowerText(s)
    IN  \E p \in {x \in 0..Len(s) : StartsAt(low, "find", x)} :
        \E r \in {x \in (p + 5)..Len(s) : AllSpace(s, p + 4, x)} :
        \E q \in {x \in r..Len(s) : StartsAt(low, "-delete", x)} :
            \A i \in r..(q - 1) : At(s, i) # "\n"

FirstSubPattern(cmd, result) ==
    LET hits == {n \in 1..6 : DestructiveRegex(ClaimedOrder[n], cmd)}
    IN  /\ IF hits = {} THEN result = None
           ELSE result = Some(ClaimedDescriptions[CHOOSE n \in hits : \A k \in hits : n <= k])
        /\ DeleteIdiom(cmd) => result = Some("find with -delete option")

C16_WideTexts ==
    \A c \in WideFindCommands :
       PassesFindGate(c) => FirstSubPattern(c, check_destructive_find(c))

C16_FirstSubPattern ==
    /\ (pc = "classified" /\ PassesFindGate(arg)) => FirstSubPattern(arg, ret)
    /\ C16_WideTexts

C16_Witness ==
    /\ pc = "classified" /\ PassesFindGate(arg)
    /\ DestructiveRegex("delete", arg) /\ DestructiveRegex("exec", arg)
    /\ ret = Some("find with -delete option")
    /\ check_destructive_find("findÂ . | xargÅ¿ rm") = Some("find piped to xargs rm/rmdir")
    /\ check_destructive_find("findâ. -oâª rm ") = Some("find with -ok rm/rmdir")
    /\ {"findÂ . | xargÅ¿ rm", "findâ. -oâª rm "} \subseteq WideFindCommands

(* C17: check_destructive_find returns None for every find command whose   *)
(* text after `find` holds no `-delete`, no `-exec`, `-execdir` or `-ok`   *)
(* followed by rm, rmdir or mv, and no pipe into xargs rm or rmdir.  Case  *)
(* is ignored, the long s and the Kelvin sign being case variants of `s`   *)
(* and `k`; "followed by" and "into" allow whitespace and `sudo` in        *)
(* between.                                                                *)
(* The property is stated of the commands of a state and of the wide       *)
(* commands.                                                               *)

(* The text without its white space *)
RECURSIVE Squeeze(_)
Squeeze(s) ==
    IF s = "" THEN ""
    ELSE IF SpaceStartsAt(s, 0)
    THEN Squeeze(Slice(s, CHOOSE n \in SpaceLen(s, 0) : TRUE, Len(s)))
    ELSE At(s, 0) \o Squeeze(Slice(s, 1, Len(s)))

(* The text with every case variant of an ASCII letter replaced by the     *)
(* lower-case letter                                                       *)
RECURSIVE CaseFolded(_)
CaseFolded(s) ==
    IF s = "" THEN ""
    ELSE IF StartsAt(s, LongS, 0) THEN "s" \o CaseFolded(Slice(s, Len(LongS), Len(s)))
    ELSE IF StartsAt(s, KelvinSign, 0)
    THEN "k" \o CaseFolded(Slice(s, Len(KelvinSign), Len(s)))
    ELSE to_ascii_lowercase(At(s, 0)) \o CaseFolded(Slice(s, 1, Len(s)))

Occurrences(t, w, from) == {x \in from..Len(t) : StartsAt(t, w, x)}

Gap(t, a, b) == Squeeze(Slice(t, a, b)) \in {"", "sudo"}

(* The text after the first `find` of s, case-folded; "" without a find *)
AfterFind(s) ==
    LET low   == CaseFolded(s)
        finds == Occurrences(low, "find", 0)
    IN  IF finds = {} THEN ""
        ELSE Slice(low, 4 + CHOOSE p \in finds : \A q \in finds : p <= q, Len(low))

UsesDestructiveIdiom(t) ==
    \/ contains(t, "-delete")
    \/ \E option \in {"-exec", "-execdir", "-ok"} : \E verb \in {"rm", "rmdir", "mv"} :
          \E p \in Occurrences(t, option, 0) :
              \E q \in Occurrences(t, verb, p + Len(option)) : Gap(t, p + Len(option), q)
    \/ \E p \in Occurrences(t, "|", 0) :
          \E x \in Occurrences(t, "xargs", p + 1) :
              /\ Gap(t, p + 1, x)
              /\ \E q \in Occurrences(t, "rm", x + 5) : Gap(t, x + 5, q)

C17_WideTexts ==
    \A c \in WideFindCommands :
       (contains(LowerText(c), "find") /\ ~UsesDestructiveIdiom(AfterFind(c)))
           => check_destructive_find(c) = None

C17_SafeFindIsNone ==
    /\ (/\ pc = "classified"
        /\ contains(LowerText(arg), "find")
        /\ ~UsesDestructiveIdiom(AfterFind(arg)))
           => ret = None
    /\ C17_WideTexts

C17_Witness ==
    /\ pc = "classified"
    /\ PassesFindGate(arg)
    /\ contains(arg, "-exec ls")
    /\ ~UsesDestructiveIdiom(AfterFind(arg))
    /\ ret = None
    /\ "findÂ . | xargÅ¿ ls" \in WideFindCommands
    /\ ~UsesDestructiveIdiom(AfterFind("findÂ . | xargÅ¿ ls"))
    /\ UsesDestructiveIdiom(AfterFind("findÂ . | xargÅ¿ rm"))

----------------------------------------------------------------------------
(* C18: an invocation of a handler emits at most one verdict: nothing is   *)
(* emitted before the handler runs, a finished handler has emitted zero or *)
(* one output, and after the rm Deny no Ask is emitted.                    *)
C18_AtMostOneVerdict ==
    /\ pc = "start" => out = << >>
    /\ Len(out) <= 1
    /\ (ShellFlow /\ \E n \in 1..Len(out) : out[n].decision # None)
          => Len(out) = 1 /\ ~AskEmitted

C18_Witness ==
    /\ ShellFlow /\ flags.block_rm /\ flags.confirm_destructive_find
    /\ is_rm_command(BashCommand)
    /\ check_destructive_find(BashCommand) = Some("find with -delete option")
    /\ out = << RmDenyOutput >>

(* C19: the attribute flow scans new_string whenever that field is         *)
(* present and content only when new_string is absent: with new_string     *)
(* present the content field does not influence the verdict, a present but *)
(* empty new_string gives NoOpinion, and with new_string absent the        *)
(* verdict is the one of the same event with the content as new_string.    *)
WithFields(new_string, content) ==
    HookInput(data[1].tool_name,
              Some([data[1].tool_input[1] EXCEPT !.new_string = new_string,
                                                 !.content = content]))

VerdictOf(input) ==
    pre_tool_use(flags.deny_rust_allow, flags.expect, flags.additional_context, input)

C19_NewStringPreferred ==
    (AttributeFlow /\ data # None /\ data[1].tool_input # None) =>
        LET new_string == data[1].tool_input[1].new_string
            content    == data[1].tool_input[1].content
        IN  /\ new_string # None =>
                  \A c \in ContentFields : out = VerdictOf(WithFields(new_string, c))
            /\ new_string = Some("") => NoOpinion
            /\ new_string = None => out = VerdictOf(WithFields(content, None))
            /\ (PassesAttributeGate /\ flags.deny_rust_allow /\ ~flags.expect) =>
                  (DenyEmitted <=> check_rust_allow_attributes(
                       IF new_string # None THEN new_string[1] ELSE content[1]) # "Ok")

C19_Witness ==
    /\ AttributeFlow /\ flags.deny_rust_allow /\ ~flags.expect
    /\ EventTool = "Write"
    /\ EventHasField("file_path") /\ is_rust_file(EventField("file_path"))
    /\ data[1].tool_input[1].new_string = Some("")
    /\ data[1].tool_input[1].content = Some("#[expect(x)]")
    /\ NoOpinion

(* C20: every emitted output has one of two shapes: (i) a decision with    *)
(* behavior deny and a message, without permission_decision and reason;    *)
(* (ii) a permission_decision ask or deny with a reason, without decision. *)
(* Shape (i) is the rm denial only, with event PermissionRequest; the      *)
(* destructive-find output is ask with event PermissionRequest; the        *)
(* attribute denial is deny with event PreToolUse; Allow is never emitted. *)
DecisionShape(o) ==
    /\ o.decision # None
    /\ o.decision[1].behavior = "deny"
    /\ o.decision[1].message # ""
    /\ o.permission_decision = None
    /\ o.permission_decision_reason = None

PermissionDecisionShape(o) ==
    /\ o.decision = None
    /\ o.permission_decision \in {Some("ask"), Some("deny")}
    /\ o.permission_decision_reason # None

C20_OutputShapes ==
    \A n \in 1..Len(out) :
        LET o == out[n]
        IN  /\ DecisionShape(o) # PermissionDecisionShape(o)
            /\ DecisionShape(o) =>
                  /\ ShellFlow /\ flags.block_rm /\ is_rm_command(BashCommand)
                  /\ o.decision[1].message = ClaimedRmMessage
                  /\ o.hook_event_name = "PermissionRequest"
            /\ o.permission_decision = Some("ask") =>
                  /\ ShellFlow /\ check_destructive_find(BashCommand) # None
                  /\ o.hook_event_name = "PermissionRequest"
            /\ o.permission_decision = Some("deny") =>
                  AttributeFlow /\ o.hook_event_name = "PreToolUse"
            /\ o.permission_decision # Some("allow")
            /\ o.decision # None => o.decision[1].behavior # "allow"

C20_Witness ==
    /\ AttributeFlow
    /\ Len(out) = 1
    /\ PermissionDecisionShape(out[1])
    /\ out[1].permission_decision = Some("deny")
    /\ out[1].hook_event_name = "PreToolUse"

----------------------------------------------------------------------------
(* C21: on an empty buffer the scanner returns false for any offset (0 is  *)
(* the only offset within an empty buffer).                                *)
C21_EmptyBuffer == (pc = "scanned" /\ arg[1] = "") => ret = FALSE

C21_Witness == pc = "scanned" /\ arg = <<"", 0>> /\ ret = FALSE

(* The prefix before the offset, and the part of it on the line of the     *)
(* offset: from the byte after the last newline before the offset, or from *)
(* the start of the buffer.                                                *)
Prefix == Slice(arg[1], 0, arg[2])

LineOfOffset ==
    LET starts == {p \in 0..arg[2] : p = 0 \/ At(arg[1], p - 1) = "\n"}
    IN  Slice(arg[1], CHOOSE p \in starts : \A q \in starts : q <= p, arg[2])

(* C22: the scanner returns true whenever the text between the start of    *)
(* the line of the offset and the offset holds `//`; a `//` on an earlier  *)
(* line alone does not exclude the offset: without `//` on the line of the *)
(* offset, and without `/*` and double quote in the prefix, the result is  *)
(* false.                                                                  *)
C22_LineComment ==
    pc = "scanned" =>
        /\ contains(LineOfOffset, "//") => ret = TRUE
        /\ (/\ ~contains(LineOfOffset, "//")
            /\ ~contains(Prefix, "/*")
            /\ ~contains(Prefix, "\""))
              => ret = FALSE

C22_Witness ==
    /\ pc = "scanned"
    /\ arg = <<"//\nx", 4>>
    /\ ret = FALSE

(* The number of non-overlapping occurrences of w in s, found from left to *)
(* right                                                                   *)
RECURSIVE NonOverlapping(_, _, _)
NonOverlapping(s, w, from) ==
    LET found == {p \in from..Len(s) : StartsAt(s, w, p)}
    IN  IF found = {} THEN 0
        ELSE 1 + NonOverlapping(s, w, Len(w) + CHOOSE p \in found : \A q \in found : p <= q)

Opens(s) == NonOverlapping(s, "/*", 0)

Closes(s) == NonOverlapping(s, "*/", 0)

(* A `/*` at offset a of the prefix, the text before it with balanced      *)
(* markers, and no `*/` between it and the end of the prefix               *)
OpenBlockAt(a) ==
    /\ StartsAt(Prefix, "/*", a)
    /\ Opens(Slice(Prefix, 0, a)) = Closes(Slice(Prefix, 0, a))
    /\ \A p \in (a + 2)..Len(Prefix) : ~StartsAt(Prefix, "*/", p)

(* C23 as stated: the scanner returns true when the prefix holds more      *)
(* non-overlapping `/*` than `*/`, so every position between a `/*` and    *)
(* its closing `*/` is excluded when the text before the `/*` has balanced *)
(* markers.                                                                *)
C23_AsStated ==
    pc = "scanned" =>
        /\ Opens(Prefix) > Closes(Prefix) => ret = TRUE
        /\ \A a \in 0..Len(Prefix) : OpenBlockAt(a) => ret = TRUE

(* C23: the scanner returns true when the prefix holds more                *)
(* non-overlapping `/*` than `*/`; every position between a `/*` and its   *)
(* closing `*/` is excluded when the text before the `/*` has balanced     *)
(* markers and no `*/` of the prefix overlaps that `/*` (the text before   *)
(* it does not end in `*`, and no `/` follows it directly).                *)
C23_BlockComment ==
    pc = "scanned" =>
        /\ Opens(Prefix) > Closes(Prefix) => ret = TRUE
        /\ \A a \in 0..Len(Prefix) :
              (/\ OpenBlockAt(a)
               /\ ~(a > 0 /\ StartsAt(Prefix, "*/", a - 1))
               /\ ~StartsAt(Prefix, "*/", a + 1))
                  => ret = TRUE

C23_Witness ==
    /\ pc = "scanned"
    /\ arg = <<"/**/\n/*", 7>>
    /\ OpenBlockAt(5)
    /\ ret = TRUE

----------------------------------------------------------------------------
(* The walk over the prefix as the string rules describe it.  The mode at  *)
(* the end of the prefix is "raw" (inside raw-string mode), "open" (an     *)
(* ordinary string was opened and no closing quote follows in the prefix)  *)
(* or "out".                                                               *)

(* The quote that ends a raw-string opener starting with the `r` at i:     *)
(* `r`, zero or more `#`, a quote.                                         *)
RawOpenerQuote(s, i) ==
    {q \in (i + 1)..(Len(s) - 1) :
        /\ At(s, i) = "r"
        /\ At(s, q) = "\""
        /\ \A x \in (i + 1)..(q - 1) : At(s, x) = "#"}

(* The quotes after i that are not preceded by a backslash *)
ClosingQuotes(s, i) ==
    {k \in (i + 1)..(Len(s) - 1) : At(s, k) = "\"" /\ At(s, k - 1) # "\\"}

Least(S) == CHOOSE x \in S : \A y \in S : x <= y

RECURSIVE RuleWalk(_, _, _)
RuleWalk(s, i, mode) ==
    IF i >= Len(s) THEN mode
    ELSE IF mode = "raw"
    THEN RuleWalk(s, i + 1, IF At(s, i) = "\"" THEN "out" ELSE "raw")
    ELSE IF RawOpenerQuote(s, i) # {}
    THEN RuleWalk(s, 1 + Least(RawOpenerQuote(s, i)), "raw")
    ELSE IF At(s, i) = "\"" /\ (i = 0 \/ At(s, i - 1) # "\\")
    THEN IF ClosingQuotes(s, i) = {} THEN "open"
         ELSE RuleWalk(s, 1 + Least(ClosingQuotes(s, i)), "out")
    ELSE RuleWalk(s, i + 1, "out")

(* The line-comment check or the block-comment check excludes the offset *)
CommentCheckFires == contains(LineOfOffset, "//") \/ Opens(Prefix) > Closes(Prefix)

(* C24: outside raw-string mode an `r` followed by zero or more `#` and a  *)
(* quote enters raw-string mode and the scan resumes after that quote; in  *)
(* raw-string mode the next quote of any kind leaves the mode, whatever    *)
(* the number of `#` in the opener; when the line-comment, block-comment   *)
(* and unterminated-string checks do not fire, the offset is excluded iff  *)
(* the walk over the prefix ends in raw-string mode.                       *)
C24_RawStringRule ==
    (pc = "scanned" /\ ~CommentCheckFires /\ RuleWalk(Prefix, 0, "out") # "open")
        => (ret = TRUE <=> RuleWalk(Prefix, 0, "out") = "raw")

C24_Witness ==
    /\ pc = "scanned"
    /\ arg = <<"r#\"\"", 4>>
    /\ RuleWalk(Slice(arg[1], 0, 3), 0, "out") = "raw"
    /\ RuleWalk(Prefix, 0, "out") = "out"
    /\ ret = FALSE

(* Ordinary strings of the prefix as a Rust lexer sees them.  A closed     *)
(* string from a to b: the opening quote at a, its closing quote at b (the *)
(* quotes between them are escaped), and only code without quotes around   *)
(* it.  An open string from a: the opening quote at a, no closing quote up *)
(* to the end of the prefix, only code without quotes before it.           *)
CodeWithoutQuotes(lexed, from, to) ==
    \A o \in from..to : lexed[o + 1].kind = "code" /\ At(Prefix, o) # "\""

ClosedString(lexed, a, b) ==
    /\ lexed[a + 1].tag = "so"
    /\ lexed[b + 1].tag = "sc" /\ lexed[b + 1].id = a
    /\ CodeWithoutQuotes(lexed, 0, a - 1)
    /\ CodeWithoutQuotes(lexed, b + 1, Len(Prefix) - 1)

OpenString(lexed, a) ==
    /\ lexed[a + 1].tag = "so"
    /\ \A o \in a..(Len(Prefix) - 1) : lexed[o + 1].id = a /\ lexed[o + 1].tag # "sc"
    /\ CodeWithoutQuotes(lexed, 0, a - 1)

AfterBackslash(a) == a > 0 /\ At(Prefix, a - 1) = "\\"

(* C25 as stated: outside raw-string mode a quote not preceded by a        *)
(* backslash opens an ordinary string, closed by the next quote not        *)
(* preceded by a backslash; without such a quote in the prefix the offset  *)
(* is excluded.  Consequently an offset after a properly closed ordinary   *)
(* string is not excluded by the string check and an offset inside an open *)
(* one is excluded.                                                        *)
C25_AsStated ==
    pc = "scanned" =>
        LET lexed == Lexed(Prefix)
        IN  /\ RuleWalk(Prefix, 0, "out") = "open" => ret = TRUE
            /\ \A a \in 0..(Len(Prefix) - 1) :
                  /\ (~CommentCheckFires /\ \E b \in (a + 1)..(Len(Prefix) - 1) :
                                                ClosedString(lexed, a, b))
                        => ret = FALSE
                  /\ OpenString(lexed, a) => ret = TRUE

(* The quote at a directly follows an `r` and a run of `#`: the scanner    *)
(* takes it for the quote of a raw-string opener.                          *)
AfterRawPrefix(a) == \E i \in 0..(a - 1) : a \in RawOpenerQuote(Prefix, i)

(* C25: the rule as above.  An offset after a properly closed ordinary     *)
(* string is not excluded by the string check when neither the opening nor *)
(* the closing quote of the string directly follows a backslash and the    *)
(* opening quote does not follow an `r` and a run of `#`, and an offset    *)
(* inside an open ordinary string is excluded when the opening quote       *)
(* follows neither a backslash nor an `r` and a run of `#`.                *)
C25_OrdinaryStringRule ==
    pc = "scanned" =>
        LET lexed == Lexed(Prefix)
        IN  /\ RuleWalk(Prefix, 0, "out") = "open" => ret = TRUE
            /\ \A a \in 0..(Len(Prefix) - 1) :
                  /\ (~CommentCheckFires /\ ~AfterBackslash(a) /\ ~AfterRawPrefix(a)
                        /\ \E b \in (a + 1)..(Len(Prefix) - 1) :
                               ClosedString(lexed, a, b) /\ ~AfterBackslash(b))
                        => ret = FALSE
                  /\ (OpenString(lexed, a) /\ ~AfterBackslash(a) /\ ~AfterRawPrefix(a))
                        => ret = TRUE

C25_Witness ==
    /\ pc = "scanned"
    /\ arg = <<"\"\\\"\"", 4>>
    /\ ClosedString(Lexed(Prefix), 0, 3)
    /\ ret = FALSE

----------------------------------------------------------------------------
(* C26: for every buffer and every offset within it the scanner terminates *)
(* with a boolean and without an access outside the prefix: no indexing    *)
(* panics, the index i grows with every iteration of the outer loop and    *)
(* stays within the prefix while the loop runs, and the run ends with the  *)
(* result of is_in_comment_or_string.                                      *)
C26_WalkTerminates ==
    /\ [](pc # "panicked")
    /\ [](pc = "walk" => data[1].i >= 0)
    /\ [][(pc = "walk" /\ pc' = "walk") => data'[1].i > data[1].i]_vars
    /\ [](pc = "scanned" => ret = Some(is_in_comment_or_string(arg[1], arg[2])))
    /\ <>(pc = "scanned" /\ ret \in {Some(TRUE), Some(FALSE)})

C26_Witness ==
    /\ pc = "scanned"
    /\ arg = <<"\"x\"r", 4>>
    /\ data = Some([i |-> 4, in_raw_string |-> FALSE])
    /\ ret = Some(FALSE)

----------------------------------------------------------------------------
(* C27: lenient mode is never stricter than strict mode: an event that the *)
(* attribute flow denies with the expect flag on is also denied with the   *)
(* flag off (same event, same additional context), and an event that gets  *)
(* no output with the flag off gets none with the flag on.                 *)
OtherModeOut ==
    pre_tool_use(flags.deny_rust_allow, ~flags.expect, flags.additional_context, data)

C27_LenientNotStricter ==
    AttributeFlow =>
        /\ (flags.expect /\ DenyEmitted) =>
              \E n \in 1..Len(OtherModeOut) : IsDeny(OtherModeOut[n])
        /\ (~flags.expect /\ NoOpinion) => OtherModeOut = << >>

C27_Witness ==
    /\ AttributeFlow /\ flags.deny_rust_allow /\ flags.expect
    /\ flags.additional_context = Some("See CONTRIBUTING.md")
    /\ Finding = "HasBoth"
    /\ DenyEmitted
    /\ Len(OtherModeOut) = 1
    /\ OtherModeOut[1].permission_decision_reason
          = Some(BothMessage \o " See CONTRIBUTING.md")

----------------------------------------------------------------------------
(* C28: the two front ends agree: on every decoded event, expect flag and  *)
(* additional context, claude_hooks prints exactly what agent_hooks/claude *)
(* prints when all its checks are enabled, message text included, or both  *)
(* print nothing.  A decoded event is a standard input that both front     *)
(* ends decode; both then hold the same event.  A front end that cannot    *)
(* decode its input prints nothing.                                        *)
C28_FrontEndsAgree ==
    pc = "agent_hooks_returned" =>
        /\ (claude_hooks_read_hook_input(data) # None
              /\ agent_hooks_read_hook_input(data) # None)
           => (claude_hooks_read_hook_input(data) = agent_hooks_read_hook_input(data)
                 /\ out = ret)
        /\ claude_hooks_read_hook_input(data) = None => out = << >>
        /\ agent_hooks_read_hook_input(data) = None => ret = << >>

C28_Witness ==
    /\ pc = "agent_hooks_returned"
    /\ flags.subcommand = "deny-rust-allow" /\ ~flags.expect
    /\ flags.additional_context = Some("See CONTRIBUTING.md")
    /\ claude_hooks_read_hook_input(data) # None
    /\ agent_hooks_read_hook_input(data) # None
    /\ Len(out) = 1 /\ Len(ret) = 1
    /\ ret[1].permission_decision_reason = Some(BothMessage \o " See CONTRIBUTING.md")

----------------------------------------------------------------------------
(* C29: chaining cannot hide an rm invocation: when c is classified as an  *)
(* rm command, so is p + s + ws + c for every prefix text p, every         *)
(* separator s among ; && || | & ( and optional whitespace ws.             *)
(* The property is stated of the commands of a state and of the wide       *)
(* commands.                                                               *)
C29_WideTexts ==
    \A parts \in WideChainParts :
       is_rm_command(parts.c) => is_rm_command(ComposeChain(parts)) = TRUE

C29_ChainedRmMatches ==
    /\ (pc = "classified" /\ is_rm_command(data.c)) => ret = TRUE
    /\ C29_WideTexts

C29_Witness ==
    /\ pc = "classified"
    /\ data = [p |-> "echo \"", s |-> "&&", ws |-> "\n", c |-> "sudo rm"]
    /\ ret = TRUE
    /\ \E parts \in WideChainParts :
          is_rm_command(parts.c) /\ ComposeChain(parts) = "lsÂ ||âsudoãrm"

----------------------------------------------------------------------------
(* C30: the shell-command verdict does not depend on blanks or a line      *)
(* break in front of the command word: is_rm_command and                   *)
(* check_destructive_find give, for c as it stands, for c behind leading   *)
(* spaces or a tab and for c on a new line after the command p, the result *)
(* they give for c placed after p and a semicolon.                         *)
AfterSemicolon == (data.p \o ";") \o data.c

C30_PlacementIndependent ==
    /\ pc = "rm_classified" => ret = is_rm_command(AfterSemicolon)
    /\ pc = "find_classified" => ret = check_destructive_find(AfterSemicolon)

====
